---- MODULE Spec2Model ----
(***************************************************************************)
(* Model of the content-verification pipeline of "Seen":                   *)
(*   verifyContent (lib/gemini/verify) and its helpers                     *)
(*   (lib/gemini/verification-helpers): getSunriseSunset, getWeatherData,  *)
(*   getReverseGeocode, fetchImageAsBase64, uploadVideoToGemini,           *)
(*   deleteGeminiFile.                                                     *)
(* One behaviour of Spec is one call of verifyContent; every await of the  *)
(* code is a step, and what the outside world answers at an await is       *)
(* chosen with \E from the outcomes the code distinguishes.                *)
(* SunSpec is the day/night computation of getSunriseSunset, NormSpec the  *)
(* mismatch check and the normalisation of the parsed object, ApiSpec the  *)
(* verify route (POST, GET) over the uploads table.                        *)
(***************************************************************************)
EXTENDS Integers, Sequences, FiniteSets, TLC

VARIABLES
    pc,                 \* position of the run inside verifyContent / uploadVideoToGemini
    input,              \* arguments of verifyContent
    sunriseSunsetData,  \* verifyContent local (L37)
    weatherData,        \* verifyContent local (L38)
    locationName,       \* verifyContent local (L39)
    ctxLog,             \* history: per context call, not called / ok / failed
    imageBase64,        \* verifyContent local (L92)
    videoUri,           \* verifyContent local (L30)
    fetchLog,           \* history: media downloads issued (image or source video)
    tempFile,           \* the local temporary file of uploadVideoToGemini
    remoteFile,         \* the file in the provider's storage
    uploadCalls,        \* history: number of fileManager.uploadFile calls
    file,               \* uploadVideoToGemini local `file.state` (L721): last state observed
    elapsed,            \* Date.now() - startTime, in ms (L723, L726)
    pollWaits,          \* 1-second waits of the current poll loop
    pollGets,           \* fileManager.getFile calls of the current poll loop
    stagingExit,        \* history: how uploadVideoToGemini ended
    attempt,            \* loop variable of the retry loop (L305)
    invocationLog,      \* history: model.generateContent calls
    attemptLog,         \* history: outcome of each attempt
    waits,              \* history: backoff delays slept, in ms
    lastError,          \* verifyContent local (L303)
    parsed,             \* verifyContent local (L302)
    deleteLog,          \* history: places that issued deleteGeminiFile
    caught,             \* the error travelling to the outer catch (L492)
    raisedAt,           \* history: stage whose failure reached the outer catch
    result,             \* value verifyContent returned
    raised,             \* error verifyContent raised to its caller
    sun,                \* getSunriseSunset's day/night computation on its own: inputs and isDaytime
    norm,               \* the mismatch check and result normalisation of verifyContent on their own
    uploads,            \* the uploads table: id -> verification fields and soft-delete mark
    api,                \* the verify route: the request being served, with its reads and writes
    repair,             \* the JSON recovery of an attempt on its own: a response text and its parses
    race,               \* two verification requests for one upload in flight at once
    temps,              \* two video stagings in flight at once and the temporary files of the host
    submit              \* the upload page: submissions inserting rows and triggering verification

vars == <<pc, input, sunriseSunsetData, weatherData, locationName, ctxLog,
          imageBase64, videoUri, fetchLog, tempFile, remoteFile, uploadCalls,
          file, elapsed, pollWaits, pollGets, stagingExit, attempt,
          invocationLog, attemptLog, waits, lastError, parsed, deleteLog,
          caught, raisedAt, result, raised>>

ctxVars   == <<sunriseSunsetData, weatherData, locationName, ctxLog>>
mediaVars == <<imageBase64, videoUri, fetchLog>>
stageVars == <<tempFile, remoteFile, uploadCalls, file, elapsed, pollWaits,
               pollGets, stagingExit>>
loopVars  == <<attempt, invocationLog, attemptLog, waits, lastError, parsed>>
exitVars  == <<deleteLog, caught, raisedAt, result, raised>>

\* the variables a verifyContent run does not touch
sideVars == <<repair, race, temps, submit>>

otherVars == <<sun, norm, uploads, api, sideVars>>

allVars == <<vars, otherVars>>

-----------------------------------------------------------------------------
(* Program constants *)

MAX_RETRIES == 3

maxWaitTime == 30000

PollIntervalMs == 1000

(* Bounds of the model *)

\* getFile / timer latency added to a poll iteration, in units of LatencyStepMs
MaxLatencySteps == 1

LatencyStepMs == 500

\* capture times of day are sampled every CaptureMinuteStep minutes of each hour
CaptureMinuteStep == 15

\* rows of the uploads table
MaxUploads == 11

\* rows 1..OwnedUploads belong to the user who soft-deletes
OwnedUploads == 1

\* over all requests: verification outcomes other than the usual one (and
\* selections that fail)
MaxDeviations == 1

\* over all requests: writes the database does not apply although it could
MaxWriteFailures == 1

\* the values Date.now() takes while two runs stage a video: 0..MaxClock
MaxClock == 2

\* the files of one submission of the upload page
FilesPerSubmission == 2

-----------------------------------------------------------------------------
(* Values *)

NULL == "null"

Latitudes    == {NULL, "0", "52.5"}
Longitudes   == {NULL, "13.4"}
CaptureDates == {NULL, "2024-06-01T12:00"}
FileTypes    == {"image", "video"}

\* JavaScript truthiness of a nullable number / string (L41, L96, L311, L322):
\* null, the number 0 and the empty string are falsy.
Truthy(v) == v # NULL /\ v # "0" /\ v # ""

\* An Error object: `origin` is the place that constructed it (its identity),
\* `message` its message as the list of the fragments it is built from.
MkError(origin, message) == [origin |-> origin, message |-> message]

NoError == MkError("none", <<>>)

\* parsed model JSON, as far as normalisation looks at it
NoParsed == [present |-> FALSE, status |-> NULL, sourcesUsed |-> "absent"]

NoResult == [present |-> FALSE, attempt |-> 0, status |-> NULL, verified |-> FALSE]

NoSun == [present |-> FALSE, error |-> FALSE, isDaytime |-> FALSE]

-----------------------------------------------------------------------------
(* Context helpers.  Each takes what the outside world answered and gives   *)
(* [threw, value]: whether the helper raised to verifyContent, and what it  *)
(* returned otherwise.                                                      *)

SunOutcomes     == {"network_error", "not_ok", "bad_status", "malformed", "day", "night"}
WeatherOutcomes == {"missing_key", "network_error", "not_ok", "malformed", "ok"}
GeocodeOutcomes == {"missing_key", "network_error", "not_ok", "malformed", "no_features", "ok"}

ContextCalls == {"sun", "weather", "geocode"}

\* the outcomes in which the call delivered its signal
OkOutcomes == {"day", "night", "ok"}

\* what ctxLog keeps of an outcome
Classify(o) == IF o \in OkOutcomes THEN "ok" ELSE "failed"

\* getSunriseSunset: the whole body is inside try; the catch returns the
\* error record with isDaytime: true.
GetSunriseSunset(o) ==
    IF o \in {"day", "night"}
    THEN [threw |-> FALSE,
          value |-> [present |-> TRUE, error |-> FALSE, isDaytime |-> (o = "day")]]
    ELSE [threw |-> FALSE,
          value |-> [present |-> TRUE, error |-> TRUE, isDaytime |-> TRUE]]

GetWeatherData_NoCatch(o) ==
    IF o = "ok" THEN [threw |-> FALSE, value |-> TRUE]
    ELSE IF o = "missing_key" THEN [threw |-> FALSE, value |-> FALSE]
    ELSE [threw |-> TRUE, value |-> FALSE]

\* getWeatherData: null without API key, null from the catch, data otherwise.
\* value is "weatherData is non-null".
GetWeatherData(o) ==
    IF o = "ok" THEN [threw |-> FALSE, value |-> TRUE]
    ELSE [threw |-> FALSE, value |-> FALSE]

\* getReverseGeocode: null without token, null from the catch, null when the
\* body has no feature, the place name otherwise.
GetReverseGeocode(o) ==
    IF o = "ok" THEN [threw |-> FALSE, value |-> "place"]
    ELSE [threw |-> FALSE, value |-> NULL]

\* L41: if (latitude && longitude && captureDate)
GatherGuard(in) ==
    Truthy(in.latitude) /\ Truthy(in.longitude) /\ Truthy(in.captureDate)

\* L94, L99: which media branch the run takes
MediaPc(in) == IF in.fileType = "image" THEN "fetchImage" ELSE "vDownload"

\* an exception inside the outer try of verifyContent lands in its catch (L492)
Throw(stage, err) ==
    /\ pc' = "catch"
    /\ caught' = err
    /\ raisedAt' = stage

-----------------------------------------------------------------------------
\* the locals and histories of a run before its first step
RunLocalsInit ==
    /\ sunriseSunsetData = NoSun
    /\ weatherData = FALSE
    /\ locationName = NULL
    /\ ctxLog = [c \in ContextCalls |-> "notcalled"]
    /\ imageBase64 = NULL
    /\ videoUri = NULL
    /\ fetchLog = <<>>
    /\ tempFile = "none"
    /\ remoteFile = "none"
    /\ uploadCalls = 0
    /\ file = NULL
    /\ elapsed = 0
    /\ pollWaits = 0
    /\ pollGets = 0
    /\ stagingExit = "none"
    /\ attempt = 1
    /\ invocationLog = <<>>
    /\ attemptLog = <<>>
    /\ waits = <<>>
    /\ lastError = NoError
    /\ parsed = NoParsed
    /\ deleteLog = <<>>
    /\ caught = NoError
    /\ raisedAt = "none"
    /\ result = NoResult
    /\ raised = NoError

\* no verifyContent run is in progress
RunIdle ==
    /\ pc = "off"
    /\ input = [fileType |-> "image", latitude |-> NULL, longitude |-> NULL,
                captureDate |-> NULL]
    /\ RunLocalsInit

Clock(h, m) == [h |-> h, m |-> m]

SunIdle == [pc |-> "off", capture |-> Clock(0, 0), sunrise |-> Clock(0, 0),
            sunset |-> Clock(0, 0), isDaytime |-> FALSE]

\* a JSON value of the model's object: t is its type, v the fragments of a
\* string (or the digits of a number), elems the elements of an array
J(t, v, elems) == [t |-> t, v |-> v, elems |-> elems]

JAbsent == J("absent", <<>>, <<>>)

\* the fields of the model's object that normalisation reads, each through
\* ensureArray (L424-L474)
ListFields == {"additionalIssues", "verificationsPerformed", "textBasedFindings",
               "webSearchResults", "sourcesUsed", "imageAnalysisFindings",
               "claimsIdentified", "recommendedActions"}

ParsedFields == {"status", "result", "analysis"} \cup ListFields

NormIdle == [pc |-> "off",
             description |-> [isNull |-> TRUE, chars |-> <<>>],
             sunriseSunsetData |-> NoSun,
             fileType |-> "image",
             issues |-> <<>>,
             verificationFactors |-> <<>>,
             parsed |-> [f \in ParsedFields |-> JAbsent],
             out |-> [threw |-> FALSE, status |-> JAbsent, verified |-> FALSE,
                      text |-> <<>>,
                      issues |-> [defined |-> FALSE, list |-> <<>>],
                      verificationFactors |-> [defined |-> FALSE, list |-> <<>>]]]

\* a string is the list of the fragments it is made of; a nullable text
\* column is null or a string
NullText == [isNull |-> TRUE, text |-> <<>>]

Text(frags) == [isNull |-> FALSE, text |-> frags]

UploadIds == 1..MaxUploads

\* column defaults of a new row (ai_verified FALSE, verification_status
\* 'unverified', ai_verification_result and deleted_at null)
PendingRow == [ai_verified |-> FALSE,
               ai_verification_result |-> NullText,
               verification_status |-> <<"unverified">>,
               deleted |-> FALSE]

InitialUploads == [id \in UploadIds |-> PendingRow]

NoVerification == [threw |-> FALSE, verified |-> FALSE, status |-> <<>>, result |-> <<>>,
                   issues |-> [defined |-> FALSE, list |-> <<>>],
                   verificationFactors |-> [defined |-> FALSE, list |-> <<>>],
                   message |-> <<>>]

NoResponse == [code |-> 0, error |-> <<>>, details |-> <<>>, verified |-> FALSE,
               result |-> <<>>, results |-> <<>>]

ApiIdle == [pc |-> "idle",
            role |-> "service_role",
            method |-> "none",
            uploadId |-> 0,
            loaded |-> [found |-> FALSE, deleted |-> FALSE],
            selected |-> <<>>,
            selectedDeleted |-> {},
            idx |-> 0,
            running |-> 0,
            verification |-> NoVerification,
            updates |-> <<>>,
            results |-> <<>>,
            response |-> NoResponse,
            deviations |-> 0,
            writeFailures |-> 0,
            lastRead |-> [by |-> "none", deleted |-> {}],
            batched |-> {}]

\* the result of JSON.parse: it threw, or the members of the object in order
NotParsed == [ok |-> FALSE, obj |-> <<>>]

RepairIdle == [pc |-> "off", text |-> <<>>, direct |-> NotParsed,
               repaired |-> NotParsed, parsed |-> NotParsed]

\* the three verification fields of a row that no write has touched
NoFields == [ai_verified |-> FALSE,
             ai_verification_result |-> [isNull |-> TRUE, text |-> <<>>],
             verification_status |-> <<"unverified">>]

RaceRuns == {"first", "second"}

RaceIdle == [pc |-> [r \in RaceRuns |-> "off"],
             uploadId |-> 0,
             handler |-> [r \in RaceRuns |-> "POST"],
             verification |-> [r \in RaceRuns |-> NoVerification],
             fields |-> [r \in RaceRuns |-> NoFields],
             applied |-> <<>>]

StagingRuns == {"a", "b"}

TempsIdle == [pc |-> [r \in StagingRuns |-> "off"],
              now |-> 0,
              ext |-> [r \in StagingRuns |-> "mp4"],
              path |-> [r \in StagingRuns |-> <<>>],
              files |-> {},
              uploaded |-> [r \in StagingRuns |-> "none"]]

Tabs == {"tab1", "tab2"}

SubmitIdle == [pc |-> [t \in Tabs |-> "off"],
               file |-> [t \in Tabs |-> 1],
               rows |-> 0,
               inserted |-> [t \in Tabs |-> [f \in 1..FilesPerSubmission |-> 0]],
               requested |-> [t \in Tabs |-> [f \in 1..FilesPerSubmission |-> 0]]]

SideIdle ==
    /\ repair = RepairIdle
    /\ race = RaceIdle
    /\ temps = TempsIdle
    /\ submit = SubmitIdle

OthersIdle ==
    /\ sun = SunIdle
    /\ norm = NormIdle
    /\ uploads = InitialUploads
    /\ api = ApiIdle
    /\ SideIdle

Init ==
    /\ pc = "start"
    /\ input \in [fileType : FileTypes, latitude : Latitudes,
                  longitude : Longitudes, captureDate : CaptureDates]
    /\ RunLocalsInit
    /\ OthersIdle

\* L41: the guard of context gathering
Start ==
    /\ pc = "start"
    /\ UNCHANGED otherVars
    /\ pc' = IF GatherGuard(input) THEN "sun" ELSE MediaPc(input)
    /\ UNCHANGED <<input, ctxVars, mediaVars, stageVars, loopVars, exitVars>>

\* L45: sunriseSunsetData = await getSunriseSunset(...)
CallSunriseSunset ==
    /\ pc = "sun"
    /\ UNCHANGED otherVars
    /\ \E o \in SunOutcomes :
        LET r == GetSunriseSunset(o) IN
        /\ ctxLog' = [ctxLog EXCEPT !["sun"] = Classify(o)]
        /\ IF r.threw
           THEN /\ Throw("context", MkError("sun", <<"sunrise/sunset failed">>))
                /\ UNCHANGED <<sunriseSunsetData, deleteLog, result, raised>>
           ELSE /\ sunriseSunsetData' = r.value
                /\ pc' = "weather"
                /\ UNCHANGED exitVars
    /\ UNCHANGED <<input, weatherData, locationName, mediaVars, stageVars, loopVars>>

\* L48: weatherData = await getWeatherData(...)
CallWeather ==
    /\ pc = "weather"
    /\ UNCHANGED otherVars
    /\ \E o \in WeatherOutcomes :
        LET r == GetWeatherData(o) IN
        /\ ctxLog' = [ctxLog EXCEPT !["weather"] = Classify(o)]
        /\ IF r.threw
           THEN /\ Throw("context", MkError("weather", <<"Failed to fetch weather data">>))
                /\ UNCHANGED <<weatherData, deleteLog, result, raised>>
           ELSE /\ weatherData' = r.value
                /\ pc' = "geocode"
                /\ UNCHANGED exitVars
    /\ UNCHANGED <<input, sunriseSunsetData, locationName, mediaVars, stageVars, loopVars>>

\* L51: locationName = await getReverseGeocode(...), then on to the media
\* branch (L94-L102)
CallReverseGeocode ==
    /\ pc = "geocode"
    /\ UNCHANGED otherVars
    /\ \E o \in GeocodeOutcomes :
        LET r == GetReverseGeocode(o) IN
        /\ ctxLog' = [ctxLog EXCEPT !["geocode"] = Classify(o)]
        /\ IF r.threw
           THEN /\ Throw("context", MkError("geocode", <<"Failed to fetch geocoding data">>))
                /\ UNCHANGED <<locationName, deleteLog, result, raised>>
           ELSE /\ locationName' = r.value
                /\ pc' = MediaPc(input)
                /\ UNCHANGED exitVars
    /\ UNCHANGED <<input, sunriseSunsetData, weatherData, mediaVars, stageVars, loopVars>>

-----------------------------------------------------------------------------
(* Media fetch *)

FetchOutcomes == {"ok", "ok_empty", "not_ok", "network_error"}

\* fetchImageAsBase64: base64 of the body, null from the catch
FetchImageAsBase64(o) ==
    IF o = "ok" THEN "base64data"
    ELSE IF o = "ok_empty" THEN ""
    ELSE NULL

ImageMissing_Ignored(b) == FALSE

\* L96: if (!imageBase64)
ImageMissing(b) == ~Truthy(b)

\* L95-L98
FetchImage ==
    /\ pc = "fetchImage"
    /\ UNCHANGED otherVars
    /\ fetchLog' = Append(fetchLog, "image")
    /\ \E o \in FetchOutcomes :
        /\ imageBase64' = FetchImageAsBase64(o)
        /\ IF ImageMissing(imageBase64')
           THEN /\ Throw("media", MkError("image", <<"Failed to fetch image from URL: ", "imageUrl">>))
                /\ UNCHANGED <<deleteLog, result, raised>>
           ELSE /\ pc' = "invoke"
                /\ UNCHANGED exitVars
    /\ UNCHANGED <<input, ctxVars, videoUri, stageVars, loopVars>>

-----------------------------------------------------------------------------
(* uploadVideoToGemini (called at L101) *)

FileStates == {"PROCESSING", "ACTIVE", "FAILED"}

\* the clock and counters of uploadVideoToGemini go out of scope when it
\* returns or raises; `file` stays as the last state the run observed
ClearStagingLocals ==
    /\ elapsed' = 0
    /\ pollWaits' = 0
    /\ pollGets' = 0

\* L688-L691: the download is outside the try of uploadVideoToGemini, so its
\* failure reaches verifyContent unwrapped
VideoDownload ==
    /\ pc = "vDownload"
    /\ UNCHANGED otherVars
    /\ fetchLog' = Append(fetchLog, "video")
    /\ \E o \in {"ok", "not_ok", "network_error"} :
        IF o = "ok"
        THEN /\ pc' = "vWrite"
             /\ UNCHANGED <<stagingExit, exitVars>>
        ELSE /\ Throw("media", MkError("download", <<"Failed to fetch video from storage: ", o>>))
             /\ stagingExit' = "download_failed"
             /\ UNCHANGED <<deleteLog, result, raised>>
    /\ UNCHANGED <<input, ctxVars, imageBase64, videoUri, tempFile, remoteFile,
                   uploadCalls, file, elapsed, pollWaits, pollGets, loopVars>>

\* L705: fs.writeFileSync(tempFilePath, buffer); a failed write may leave a
\* partial file behind
VideoWriteTemp ==
    /\ pc = "vWrite"
    /\ UNCHANGED otherVars
    /\ \E o \in {"ok", "throws_partial", "throws_nothing"} :
        /\ tempFile' = IF o = "throws_nothing" THEN "none" ELSE "exists"
        /\ IF o = "ok"
           THEN /\ pc' = "vUpload"
                /\ UNCHANGED caught
           ELSE /\ pc' = "vCatch"
                /\ caught' = MkError("write", <<"ENOSPC: no space left on device">>)
    /\ UNCHANGED <<input, ctxVars, mediaVars, remoteFile, uploadCalls, file,
                   elapsed, pollWaits, pollGets, stagingExit, loopVars,
                   deleteLog, raisedAt, result, raised>>

\* L711-L723: fileManager.uploadFile, then file = uploadResponse.file and
\* startTime = Date.now()
VideoUploadFile ==
    /\ pc = "vUpload"
    /\ UNCHANGED otherVars
    /\ uploadCalls' = uploadCalls + 1
    /\ \/ /\ pc' = "vCatch"
          /\ caught' = MkError("uploadFile", <<"provider upload error">>)
          /\ UNCHANGED <<remoteFile, file, elapsed>>
       \/ \E st \in FileStates :
          /\ remoteFile' = "present"
          /\ file' = st
          /\ elapsed' = 0
          /\ pc' = "poll"
          /\ UNCHANGED caught
    /\ UNCHANGED <<input, ctxVars, mediaVars, tempFile, pollWaits, pollGets,
                   stagingExit, loopVars, deleteLog, raisedAt, result, raised>>

TimedOut_Never(e) == FALSE

\* L726: if (Date.now() - startTime > maxWaitTime)
TimedOut(e) == e > maxWaitTime

\* L725-L728: the loop continues, the bound is exceeded
PollTimeout ==
    /\ pc = "poll"
    /\ UNCHANGED otherVars
    /\ file = "PROCESSING"
    /\ TimedOut(elapsed)
    /\ pc' = "vCatch"
    /\ caught' = MkError("timeout", <<"Video processing timeout - file did not become active within 30 seconds">>)
    /\ UNCHANGED <<input, ctxVars, mediaVars, stageVars, loopVars, deleteLog,
                   raisedAt, result, raised>>

\* L725-L731: the loop continues within the bound: wait 1 second
PollWait ==
    /\ pc = "poll"
    /\ UNCHANGED otherVars
    /\ file = "PROCESSING"
    /\ ~TimedOut(elapsed)
    /\ elapsed' = elapsed + PollIntervalMs
    /\ pollWaits' = pollWaits + 1
    /\ pc' = "pollGet"
    /\ UNCHANGED <<input, ctxVars, mediaVars, tempFile, remoteFile, uploadCalls,
                   file, pollGets, stagingExit, loopVars, exitVars>>

\* L734: file = await fileManager.getFile(...); the call takes some time and
\* reports any state, or throws
PollGetFile ==
    /\ pc = "pollGet"
    /\ UNCHANGED otherVars
    /\ pollGets' = pollGets + 1
    /\ \E l \in 0..MaxLatencySteps :
        elapsed' = elapsed + l * LatencyStepMs
    /\ \/ \E st \in FileStates :
          /\ file' = st
          /\ pc' = "poll"
          /\ UNCHANGED caught
       \/ /\ pc' = "vCatch"
          /\ caught' = MkError("getFile", <<"provider status error">>)
          /\ UNCHANGED file
    /\ UNCHANGED <<input, ctxVars, mediaVars, tempFile, remoteFile, uploadCalls,
                   pollWaits, stagingExit, loopVars, deleteLog, raisedAt,
                   result, raised>>

\* L745: fs.unlinkSync(tempFilePath) on the success path
UnlinkTemp(t) == IF t = "exists" THEN "removed" ELSE t

CatchCleanupTemp_Skipped(t) == t

\* L754-L757: if (fs.existsSync(tempFilePath)) fs.unlinkSync(tempFilePath)
CatchCleanupTemp(t) == IF t = "exists" THEN "removed" ELSE t

\* L737-L751: the loop has ended; a state other than ACTIVE raises, otherwise
\* the temp file is removed and file.uri returned into videoUri (L101)
StagingFinish ==
    /\ pc = "poll"
    /\ UNCHANGED otherVars
    /\ file # "PROCESSING"
    /\ IF file # "ACTIVE"
       THEN /\ pc' = "vCatch"
            /\ caught' = MkError("state", <<"Video file failed to process. State: ", file>>)
            /\ UNCHANGED <<videoUri, tempFile, elapsed, pollWaits, pollGets,
                           stagingExit>>
       ELSE /\ tempFile' = UnlinkTemp(tempFile)
            /\ videoUri' = "files/abc123"
            /\ stagingExit' = "returned"
            /\ ClearStagingLocals
            /\ pc' = "invoke"
            /\ UNCHANGED caught
    /\ UNCHANGED <<input, ctxVars, imageBase64, fetchLog, remoteFile, uploadCalls,
                   file, loopVars, deleteLog, raisedAt, result, raised>>

\* L752-L764: the catch of uploadVideoToGemini removes the temp file and
\* raises a wrapped error to verifyContent, whose videoUri stays null
StagingCatch ==
    /\ pc = "vCatch"
    /\ UNCHANGED otherVars
    /\ tempFile' = CatchCleanupTemp(tempFile)
    /\ stagingExit' = caught.origin
    /\ ClearStagingLocals
    /\ Throw("staging", MkError("staging", <<"Gemini File API upload failed: ">> \o caught.message))
    /\ UNCHANGED <<input, ctxVars, mediaVars, remoteFile, uploadCalls, file,
                   loopVars, deleteLog, result, raised>>

-----------------------------------------------------------------------------
(* The retry loop of verifyContent (L300-L402) *)

\* what one attempt can meet: the model call throws an Error or some other
\* value, the text holds no {...} span, the span parses neither directly nor
\* after the textual repairs, it parses directly, it parses after the repairs
FailOutcomes  == {"call_throws", "call_throws_nonerror", "no_json", "unparseable"}
ParseOutcomes == {"parses", "parses_after_repair"}

\* the parsed objects normalisation tells apart: status present or not,
\* sourcesUsed absent, a list of strings, or a list with a non-string element
ModelObjects ==
    [present : {TRUE}, status : {"verified", "potential_issues", NULL},
     sourcesUsed : {"absent", "strings", "nonStrings"}]

\* L345, L379, L383: the error an attempt's failure leaves in lastError
AttemptError(o, a) ==
    LET origin == IF a = 1 THEN "attempt1" ELSE IF a = 2 THEN "attempt2" ELSE "attempt3" IN
    IF o = "call_throws"
    THEN MkError(origin, <<"[GoogleGenerativeAI Error]: fetch failed">>)
    ELSE IF o = "call_throws_nonerror"
    THEN MkError(origin, <<"Unknown error during verification">>)
    ELSE IF o = "no_json"
    THEN MkError(origin, <<"Gemini response did not contain valid JSON. Raw response: ", "text">>)
    ELSE MkError(origin, <<"Failed to parse Gemini JSON response: ", "parseError", ". JSON excerpt: ", "excerpt">>)

MediaVariant_NoInline(img, uri) == IF Truthy(uri) THEN "fileData" ELSE "text"

\* L311-L336: the media variant handed to model.generateContent
MediaVariant(img, uri) ==
    IF Truthy(img) THEN "inlineData"
    ELSE IF Truthy(uri) THEN "fileData"
    ELSE "text"

\* deleteGeminiFile (L770-L785): the provider removes the file; deleting a file
\* that is already gone fails inside and is swallowed
DeleteGeminiFile(rf) == IF rf = "present" THEN "deleted" ELSE rf

\* L389, L405, L496: if (videoUri) deleteGeminiFile(videoUri).  The call is not
\* awaited; deleteLog records that it was issued, remoteFile what the provider
\* is left with once it has run
CleanupVideo(place) ==
    IF Truthy(videoUri)
    THEN /\ deleteLog' = Append(deleteLog, place)
         /\ remoteFile' = DeleteGeminiFile(remoteFile)
    ELSE UNCHANGED <<deleteLog, remoteFile>>

\* L387: if (attempt === MAX_RETRIES)
IsLastAttempt(a) == a = MAX_RETRIES

AttemptCleanup_EveryAttempt(a) == CleanupVideo("exhausted")

\* L387-L393: the catch of an attempt deletes the remote file on the last
\* attempt only
AttemptCleanup(a) ==
    IF IsLastAttempt(a) THEN CleanupVideo("exhausted")
    ELSE UNCHANGED <<deleteLog, remoteFile>>

BackoffDelay_Doubled(a) == (2 ^ a) * 1000

\* L398: Math.pow(2, attempt - 1) * 1000
BackoffDelay(a) == (2 ^ (a - 1)) * 1000

\* L305-L395: one attempt: call the model, look for JSON, parse, repair
Invoke ==
    /\ pc = "invoke"
    /\ UNCHANGED otherVars
    /\ attempt <= MAX_RETRIES
    /\ invocationLog' = Append(invocationLog,
          [attempt |-> attempt, variant |-> MediaVariant(imageBase64, videoUri),
           ref |-> videoUri])
    /\ \/ \E o \in ParseOutcomes, obj \in ModelObjects :
          /\ attemptLog' = Append(attemptLog, o)
          /\ parsed' = obj
          /\ pc' = "postLoop"
          /\ UNCHANGED <<lastError, remoteFile, exitVars>>
       \/ \E o \in FailOutcomes :
          /\ attemptLog' = Append(attemptLog, o)
          /\ lastError' = AttemptError(o, attempt)
          /\ UNCHANGED parsed
          /\ AttemptCleanup(attempt)
          /\ IF IsLastAttempt(attempt)
             THEN /\ Throw("invoke", lastError')
                  /\ UNCHANGED <<result, raised>>
             ELSE /\ pc' = "backoff"
                  /\ UNCHANGED <<caught, raisedAt, result, raised>>
    /\ UNCHANGED <<input, ctxVars, mediaVars, tempFile, uploadCalls, file, elapsed,
                   pollWaits, pollGets, stagingExit, attempt, waits>>

RetryPc_Restage(in) == MediaPc(in)

\* L305: the loop's back edge re-enters the loop body; the media fetch
\* (L91-L102) lies before the loop
RetryPc(in) == "invoke"

\* L397-L400 and the loop increment: sleep, then the next attempt
Backoff ==
    /\ pc = "backoff"
    /\ UNCHANGED otherVars
    /\ waits' = Append(waits, BackoffDelay(attempt))
    /\ attempt' = attempt + 1
    /\ pc' = RetryPc(input)
    /\ UNCHANGED <<input, ctxVars, mediaVars, stageVars, invocationLog, attemptLog,
                   lastError, parsed, exitVars>>

\* L404-L409: cleanup after the loop was left by break
PostLoopCleanup ==
    /\ pc = "postLoop"
    /\ UNCHANGED otherVars
    /\ CleanupVideo("post_loop")
    /\ pc' = "normalize"
    /\ UNCHANGED <<input, ctxVars, mediaVars, tempFile, uploadCalls, file, elapsed,
                   pollWaits, pollGets, stagingExit, loopVars, caught, raisedAt,
                   result, raised>>

\* L453-L455: s.startsWith on every element of sourcesUsed is a TypeError on
\* an element that is not a string
NormalizeThrows(obj) == obj.sourcesUsed = "nonStrings"

\* L412-L491: build the VerificationResult from parsed
Normalize ==
    /\ pc = "normalize"
    /\ UNCHANGED otherVars
    /\ IF NormalizeThrows(parsed)
       THEN /\ Throw("normalize", MkError("TypeError", <<"s.startsWith is not a function">>))
            /\ UNCHANGED <<deleteLog, result, raised>>
       ELSE /\ result' = [present |-> TRUE, attempt |-> attempt,
                          status |-> IF parsed.status = NULL THEN "unverified" ELSE parsed.status,
                          verified |-> (parsed.status = "verified")]
            /\ pc' = "returned"
            /\ UNCHANGED <<deleteLog, caught, raisedAt, raised>>
    /\ UNCHANGED <<input, ctxVars, mediaVars, stageVars, loopVars>>

WrapError_Rethrow(e) == e

\* L503: throw new Error(`Verification failed: ${error.message}`)
WrapError(e) == MkError("outer", <<"Verification failed: ">> \o e.message)

\* L492-L504: the outer catch of verifyContent
OuterCatch ==
    /\ pc = "catch"
    /\ UNCHANGED otherVars
    /\ CleanupVideo("outer_catch")
    /\ raised' = WrapError(caught)
    /\ pc' = "raised"
    /\ UNCHANGED <<input, ctxVars, mediaVars, tempFile, uploadCalls, file, elapsed,
                   pollWaits, pollGets, stagingExit, loopVars, caught, raisedAt,
                   result>>

-----------------------------------------------------------------------------
Next ==
    \/ Start
    \/ CallSunriseSunset
    \/ CallWeather
    \/ CallReverseGeocode
    \/ FetchImage
    \/ VideoDownload
    \/ VideoWriteTemp
    \/ VideoUploadFile
    \/ PollTimeout
    \/ PollWait
    \/ PollGetFile
    \/ StagingFinish
    \/ StagingCatch
    \/ Invoke
    \/ Backoff
    \/ PostLoopCleanup
    \/ Normalize
    \/ OuterCatch

Spec == Init /\ [][Next]_vars

\* every await of the run resolves or rejects: the run keeps taking steps
FairSpec == Spec /\ WF_vars(Next)

Terminal == pc \in {"returned", "raised"}

TypeOK ==
    /\ pc \in {"start", "sun", "weather", "geocode", "fetchImage", "vDownload",
               "vWrite", "vUpload", "poll", "pollGet", "vCatch", "invoke",
               "backoff", "postLoop", "normalize", "catch", "returned", "raised"}
    /\ attempt \in 1..MAX_RETRIES
    /\ tempFile \in {"none", "exists", "removed"}
    /\ remoteFile \in {"none", "present", "deleted"}

-----------------------------------------------------------------------------
(* Properties *)

ContextPcs == {"start", "sun", "weather", "geocode"}
StagingPcs == {"vDownload", "vWrite", "vUpload", "poll", "pollGet", "vCatch"}

\* number of failed attempts so far
FailedAttempts == Cardinality({i \in DOMAIN attemptLog : attemptLog[i] \in FailOutcomes})

AllAttemptsFailed ==
    /\ Len(attemptLog) = 3
    /\ \A i \in 1..3 : attemptLog[i] \in FailOutcomes

SomeAttemptParsed == \E i \in DOMAIN attemptLog : attemptLog[i] \in ParseOutcomes

Min(a, b) == IF a < b THEN a ELSE b

\* C1: a run whose staging returned a remote reference has issued
\* deleteGeminiFile exactly once when it ends, whatever the outcome (parse
\* success, all attempts failed, exception during normalisation).
C1_DeleteExactlyOnce ==
    (Terminal /\ videoUri # NULL) => Len(deleteLog) = 1

\* C2: at most 3 model invocations; a failed call and an unparseable response
\* use the same budget; no invocation follows an attempt that parsed; a run in
\* which an attempt parsed returns that attempt's result (attempts 1 and 2
\* failed, attempt 3 parsed: 3 invocations and the attempt-3 result).
C2_FirstParsedAttemptReturned ==
    /\ Len(invocationLog) <= 3
    /\ Len(invocationLog) = Len(attemptLog)
    /\ \A i \in DOMAIN attemptLog :
          attemptLog[i] \in ParseOutcomes => i = Len(attemptLog)
    /\ (Terminal /\ SomeAttemptParsed) =>
          /\ pc = "returned"
          /\ result.present
          /\ result.attempt = Len(invocationLog)

C5_RemoteDeletedOnStagingFailure ==
    (Terminal /\ raisedAt = "staging") => remoteFile # "present"

C7_PollSafe ==
    /\ (videoUri # NULL) => (file = "ACTIVE" /\ stagingExit = "returned")
    /\ (pc \notin StagingPcs /\ file \notin {NULL, "PROCESSING", "ACTIVE"}) =>
          (stagingExit = "state" /\ pc \in {"catch", "raised"})
    /\ (pc = "vCatch" /\ caught.origin = "timeout") =>
          (file = "PROCESSING" /\ elapsed > 30000)
    /\ (pc = "poll" /\ file = "PROCESSING") => elapsed <= 30000 + 1000 + MaxLatencySteps * LatencyStepMs
    /\ pollWaits = pollGets + (IF pc = "pollGet" THEN 1 ELSE 0)
    /\ elapsed >= pollWaits * 1000
    /\ pollWaits <= 31

\* C7: the poll loop terminates for every sequence of reported states: the
\* reference is returned only if the last observed state is ACTIVE, any other
\* non-processing state raises, a file still processing past 30 seconds
\* raises a timeout, and there is one status poll per 1-second wait.
C7_PollTerminates ==
    /\ []C7_PollSafe
    /\ (pc = "poll") ~> (stagingExit # "none")

C7_Witness ==
    /\ pc = "vCatch"
    /\ caught.origin = "timeout"
    /\ pollGets = 31

\* C8: staging (download, provider upload, poll) happens at most once per
\* run; a staging failure ends the run with no re-upload and no model
\* invocation; every invocation of a video run carries the one staged
\* reference.
C8_StagingAtMostOnce ==
    /\ uploadCalls <= 1
    /\ Len(fetchLog) <= 1
    /\ (raisedAt = "staging") =>
          (pc \in {"catch", "raised"} /\ Len(invocationLog) = 0 /\ videoUri = NULL)
    /\ (input.fileType = "video") =>
          \A i \in DOMAIN invocationLog :
              /\ invocationLog[i].variant = "fileData"
              /\ invocationLog[i].ref = "files/abc123"
              /\ invocationLog[i].ref = videoUri
              /\ stagingExit = "returned"
              /\ uploadCalls = 1

C8_Witness ==
    /\ Terminal
    /\ input.fileType = "video"
    /\ Len(invocationLog) = 3
    /\ uploadCalls = 1

\* C9: a failed download of the image or of the source video makes
\* verifyContent raise, with a single download and no model invocation.
C9_MediaFetchFatal ==
    /\ (fetchLog = <<"image">> /\ imageBase64 \in {NULL, ""}) => raisedAt = "media"
    /\ (stagingExit = "download_failed") => (raisedAt = "media" /\ uploadCalls = 0)
    /\ (raisedAt = "media") =>
          /\ pc \in {"catch", "raised"}
          /\ Len(fetchLog) = 1
          /\ Len(invocationLog) = 0
          /\ ~result.present

C9_Witness ==
    /\ pc = "raised"
    /\ raisedAt = "media"
    /\ input.fileType = "image"
    /\ imageBase64 = NULL

\* C10: context gathering never raises: whatever fails among sunrise/sunset,
\* weather and reverse geocode, all three calls are made, a signal is present
\* exactly when its own call succeeded, and the run goes on to the media
\* fetch.
C10_ContextNeverRaises ==
    /\ raisedAt # "context"
    /\ (pc \notin ContextPcs /\ ctxLog["sun"] # "notcalled") =>
          /\ \A c \in ContextCalls : ctxLog[c] # "notcalled"
          /\ pc \in {"fetchImage", "vDownload"} \/ Len(fetchLog) = 1
    /\ (ctxLog["sun"] = "ok") <=> (sunriseSunsetData.present /\ ~sunriseSunsetData.error)
    /\ (ctxLog["weather"] = "ok") <=> weatherData
    /\ (ctxLog["geocode"] = "ok") <=> (locationName # NULL)

C10_Witness ==
    /\ pc = "returned"
    /\ ctxLog["sun"] = "failed"
    /\ ctxLog["weather"] = "failed"
    /\ ctxLog["geocode"] = "ok"
    /\ locationName = "place"

-----------------------------------------------------------------------------
(* getSunriseSunset: the day/night computation (L551-L568) on its own *)

CaptureClocks ==
    {Clock(h, m) : h \in 0..23, m \in {x \in 0..59 : x % CaptureMinuteStep = 0} \cup {59}}

SunClocks == {Clock(h, m) : h \in {0, 5, 6, 12, 20, 22, 23}, m \in {0, 30, 59}}

\* L556-L558: getHours() * 60 + getMinutes()
MinutesOfDay(t) == t.h * 60 + t.m

IsDaytime_NoRollover(captureTime, sunriseTime, sunsetTime) ==
    captureTime >= sunriseTime /\ captureTime <= sunsetTime

\* L561-L568
IsDaytime(captureTime, sunriseTime, sunsetTime) ==
    IF sunsetTime > sunriseTime
    THEN captureTime >= sunriseTime /\ captureTime <= sunsetTime
    ELSE captureTime >= sunriseTime \/ captureTime <= sunsetTime

SunInit ==
    /\ RunIdle
    /\ SideIdle
    /\ norm = NormIdle
    /\ uploads = InitialUploads
    /\ api = ApiIdle
    /\ sun \in [pc : {"in"}, capture : CaptureClocks, sunrise : SunClocks,
                sunset : SunClocks, isDaytime : {FALSE}]

\* L556-L573: the three times of day and the comparison
ComputeIsDaytime ==
    /\ sun.pc = "in"
    /\ sun' = [sun EXCEPT
                 !.isDaytime = IsDaytime(MinutesOfDay(sun.capture),
                                         MinutesOfDay(sun.sunrise),
                                         MinutesOfDay(sun.sunset)),
                 !.pc = "done"]
    /\ UNCHANGED <<vars, norm, uploads, api, sideVars>>

SunNext == ComputeIsDaytime

SunSpec == SunInit /\ [][SunNext]_allVars

\* C11: with c, r, s the capture, sunrise and sunset times of day in minutes
\* since midnight, isDaytime is true exactly when r <= c <= s if s > r, and
\* when c >= r or c <= s otherwise (window spanning midnight).
C11_IsDaytimeWindow ==
    (sun.pc = "done") =>
        LET c == 60 * sun.capture.h + sun.capture.m
            r == 60 * sun.sunrise.h + sun.sunrise.m
            s == 60 * sun.sunset.h + sun.sunset.m
        IN  /\ c \in 0..1439 /\ r \in 0..1439 /\ s \in 0..1439
            /\ (s > r) => (sun.isDaytime <=> (r <= c /\ c <= s))
            /\ (s <= r) => (sun.isDaytime <=> (c >= r \/ c <= s))

C11_Witness ==
    /\ sun.pc = "done"
    /\ sun.sunrise = Clock(22, 0)
    /\ sun.sunset = Clock(5, 0)
    /\ sun.capture = Clock(23, 15)
    /\ sun.isDaytime

-----------------------------------------------------------------------------
(* verifyContent: the daylight/darkness mismatch check (L54-L78) and the    *)
(* normalisation of the parsed object (L416-L491) on their own.             *)
(* A description is its characters; a JSON string is the list of the        *)
(* fragments it is made of, so that a URL starts with its scheme.           *)

JNull == J("null", <<>>, <<>>)

JNumber == J("number", <<"7">>, <<>>)

JObject == J("object", <<>>, <<>>)

JString(frags) == J("string", frags, <<>>)

JArray(elems) == J("array", <<>>, elems)

\* JavaScript truthiness of a JSON value
JTruthy(x) ==
    CASE x.t \in {"absent", "null"} -> FALSE
      [] x.t = "string" -> x.v # <<>>
      [] x.t = "number" -> x.v # <<"0">>
      [] OTHER -> TRUE

\* String.prototype.toLowerCase on the letters the descriptions use
LowerOf == ("A" :> "a") @@ ("D" :> "d") @@ ("G" :> "g") @@ ("H" :> "h") @@
           ("I" :> "i") @@ ("N" :> "n") @@ ("S" :> "s") @@ ("T" :> "t") @@
           ("U" :> "u") @@ ("Y" :> "y")

ToLowerCase(chars) ==
    [i \in 1..Len(chars) |->
        IF chars[i] \in DOMAIN LowerOf THEN LowerOf[chars[i]] ELSE chars[i]]

\* String.prototype.includes
Includes(chars, key) ==
    \E i \in 0..(Len(chars) - Len(key)) : SubSeq(chars, i + 1, i + Len(key)) = key

\* L57-L59
MentionsDaytime(descLower) ==
    \/ Includes(descLower, <<"s", "u", "n", "n", "y">>)
    \/ Includes(descLower, <<"d", "a", "y", "l", "i", "g", "h", "t">>)
    \/ Includes(descLower, <<"a", "f", "t", "e", "r", "n", "o", "o", "n">>)
    \/ Includes(descLower, <<"m", "o", "r", "n", "i", "n", "g">>)
    \/ Includes(descLower, <<"d", "a", "y">>)

\* L60-L61
MentionsNighttime(descLower) ==
    \/ Includes(descLower, <<"n", "i", "g", "h", "t">>)
    \/ Includes(descLower, <<"d", "a", "r", "k">>)
    \/ Includes(descLower, <<"e", "v", "e", "n", "i", "n", "g">>)
    \/ Includes(descLower, <<"m", "i", "d", "n", "i", "g", "h", "t">>)

DaytimeAlert == "Description mentions daytime, but timestamp indicates it was after sunset at this location"

NighttimeAlert == "Description mentions nighttime, but timestamp indicates it was during daylight hours"

LightingFactor(isDaytime) ==
    IF isDaytime THEN "Expected lighting: Daytime/Daylight" ELSE "Expected lighting: Nighttime/Dark"

\* `description` as a condition (L56, L64)
DescriptionTruthy(d) == ~d.isNull /\ d.chars # <<>>

\* L54-L72: the issues of the automated check
PreIssues(d, sunData) ==
    IF sunData.present /\ ~sunData.error
    THEN LET descLower == IF DescriptionTruthy(d) THEN ToLowerCase(d.chars) ELSE <<>>
         IN  IF DescriptionTruthy(d)
             THEN (IF MentionsDaytime(descLower) /\ ~sunData.isDaytime
                   THEN <<DaytimeAlert>> ELSE <<>>)
                  \o (IF MentionsNighttime(descLower) /\ sunData.isDaytime
                      THEN <<NighttimeAlert>> ELSE <<>>)
             ELSE <<>>
    ELSE <<>>

\* L74-L77
PreFactors(sunData) ==
    IF sunData.present /\ ~sunData.error
    THEN <<LightingFactor(sunData.isDaytime)>> ELSE <<>>

\* L417-L421
EnsureArray(value) ==
    CASE value.t = "array" -> value.elems
      [] value.t = "string" -> <<value>>
      [] OTHER -> <<>>

\* a value inside a template literal
Render(e) ==
    CASE e.t \in {"string", "number"} -> e.v
      [] e.t = "object" -> <<"[object Object]">>
      [] e.t = "array" -> <<"[array]">>
      [] OTHER -> <<e.t>>

\* the issues the model reported, as strings
IssueTexts(list) == [i \in 1..Len(list) |-> Render(list[i])]

AllIssues_ModelOnly(issues, p) == IssueTexts(EnsureArray(p["additionalIssues"]))

\* L424-L427; an automated issue is one fragment
AllIssues(issues, p) ==
    [i \in 1..Len(issues) |-> <<issues[i]>>] \o IssueTexts(EnsureArray(p["additionalIssues"]))

\* L430-L433
AllVerificationFactors(factors, p) ==
    [i \in 1..Len(factors) |-> <<factors[i]>>]
        \o IssueTexts(EnsureArray(p["verificationsPerformed"]))

\* L490: allIssues.length > 0 ? allIssues : undefined
OrUndefined(list) == [defined |-> Len(list) > 0, list |-> list]

\* L436
Summary(p) ==
    IF JTruthy(p["result"]) THEN p["result"]
    ELSE IF JTruthy(p["analysis"]) THEN p["analysis"]
    ELSE JString(<<"Verification complete">>)

\* one section of resultText: its header and its bulleted lines
Section(kind, header, bullet, list) ==
    IF Len(list) > 0
    THEN <<[kind |-> kind, header |-> header,
            lines |-> [i \in 1..Len(list) |-> <<bullet>> \o Render(list[i])]]>>
    ELSE <<>>

\* String.prototype.startsWith, on a string
StartsWith(e, prefix) == e.v # <<>> /\ e.v[1] = prefix

\* L453-L455: the filter calls s.startsWith on every element
SourcesFilterThrows(p) ==
    \E i \in 1..Len(EnsureArray(p["sourcesUsed"])) :
        EnsureArray(p["sourcesUsed"])[i].t # "string"

IsDescriptive(e) == ~StartsWith(e, "http://") /\ ~StartsWith(e, "https://")

DescriptiveSources(p) == SelectSeq(EnsureArray(p["sourcesUsed"]), IsDescriptive)

\* L481-L483
AnalysisSection(p) ==
    IF JTruthy(p["analysis"]) /\ p["analysis"] # p["result"]
    THEN <<[kind |-> "analysis", header |-> "Detailed Analysis:",
            lines |-> <<Render(p["analysis"])>>]>>
    ELSE <<>>

\* L436-L483, when the sources filter does not throw
ResultText(p, fileType) ==
    <<[kind |-> "summary", header |-> "", lines |-> <<Render(Summary(p))>>]>>
    \o Section("level1", "LEVEL 1 - Trusted Source Verification:", "check ",
               EnsureArray(p["textBasedFindings"]))
    \o Section("web", "Web Search Findings:", "* ", EnsureArray(p["webSearchResults"]))
    \o Section("sources", "Sources:", "* ", DescriptiveSources(p))
    \o Section("level2",
               IF fileType = "video" THEN "LEVEL 2 - VIDEO Analysis:"
                                     ELSE "LEVEL 2 - IMAGE Analysis:",
               "* ", EnsureArray(p["imageAnalysisFindings"]))
    \o Section("claims", "Claims Identified:", "* ", EnsureArray(p["claimsIdentified"]))
    \o Section("actions", "Recommended Additional Verification:", "* ",
               EnsureArray(p["recommendedActions"]))
    \o AnalysisSection(p)

\* L486: parsed.status || 'unverified'
ResultStatus(p) == IF JTruthy(p["status"]) THEN p["status"] ELSE JString(<<"unverified">>)

ResultVerified_AnyStatus(p) == JTruthy(p["status"])

\* L487: parsed.status === 'verified'
ResultVerified(p) == p["status"] = JString(<<"verified">>)

\* L416-L491 as a function of the parsed object
NormalizeParsed(p, issues, factors, fileType) ==
    IF SourcesFilterThrows(p)
    THEN [NormIdle.out EXCEPT !.threw = TRUE]
    ELSE [threw |-> FALSE,
          status |-> ResultStatus(p),
          verified |-> ResultVerified(p),
          text |-> ResultText(p, fileType),
          issues |-> OrUndefined(AllIssues(issues, p)),
          verificationFactors |-> OrUndefined(AllVerificationFactors(factors, p))]

(* Inputs *)

SunnyAfternoon ==
    [isNull |-> FALSE,
     chars |-> <<"S", "u", "n", "n", "y", " ", "a", "f", "t", "e", "r", "n", "o", "o", "n">>]

Descriptions ==
    {[isNull |-> TRUE, chars |-> <<>>],
     [isNull |-> FALSE, chars |-> <<>>],
     SunnyAfternoon,
     [isNull |-> FALSE, chars |-> <<"a", "t", " ", "N", "I", "G", "H", "T">>],
     [isNull |-> FALSE, chars |-> <<"y", "e", "s", "t", "e", "r", "d", "a", "y", " ", "e", "v", "e", "n", "i", "n", "g">>],
     [isNull |-> FALSE, chars |-> <<"a", " ", "c", "a", "t">>]}

SunSignals ==
    {NoSun} \cup {GetSunriseSunset(o).value : o \in {"day", "night", "network_error"}}

StrA == JString(<<"first">>)

StrB == JString(<<"second">>)

StrUrl == JString(<<"https://", "example.org/report">>)

StrSource == JString(<<"NASA FIRMS">>)

StrResult == JString(<<"Summary of the check">>)

StrAnalysis == JString(<<"Long analysis">>)

\* the shapes a list field of the model's object can take
ListShapes ==
    {JAbsent, JNull, JNumber, JObject, StrA, JString(<<>>), JArray(<<>>),
     JArray(<<StrA, StrB>>), JArray(<<StrA, JNumber>>), JArray(<<JNull>>),
     StrUrl, JArray(<<StrUrl>>), JArray(<<StrUrl, StrSource>>)}

SectionFields == ListFields \ {"additionalIssues", "verificationsPerformed"}

Populated(f) ==
    IF f = "sourcesUsed" THEN JArray(<<StrUrl, StrSource>>) ELSE JArray(<<StrA, StrB>>)

BaseObject ==
    [f \in ParsedFields |->
        IF f = "status" THEN JString(<<"verified">>)
        ELSE IF f = "result" THEN StrResult
        ELSE JAbsent]

ResultAnalysisPairs ==
    {<<StrResult, JAbsent>>, <<StrResult, StrAnalysis>>, <<StrResult, StrResult>>,
     <<JAbsent, StrAnalysis>>, <<JAbsent, JAbsent>>, <<JString(<<>>), StrAnalysis>>}

Statuses ==
    {JAbsent, JNull, JString(<<>>), JString(<<"verified">>), JString(<<"Verified">>),
     JString(<<"potential_issues">>), JString(<<"unverified">>)}

IssueShapes == {JAbsent, StrA, JArray(<<>>), JArray(<<StrA, StrB>>)}

\* every combination of populated sections and of result/analysis
SectionCombos ==
    {[f \in ParsedFields |->
        IF f \in S THEN Populated(f)
        ELSE IF f = "result" THEN ra[1]
        ELSE IF f = "analysis" THEN ra[2]
        ELSE BaseObject[f]] : S \in SUBSET SectionFields, ra \in ResultAnalysisPairs}

\* every shape of every list field, one field at a time
ShapeVariants == {[BaseObject EXCEPT ![f] = sh] : f \in ListFields, sh \in ListShapes}

StatusVariants ==
    {[BaseObject EXCEPT !["status"] = st, !["additionalIssues"] = ai] :
        st \in Statuses, ai \in IssueShapes}

ParsedObjects == SectionCombos \cup ShapeVariants \cup StatusVariants

NormInit ==
    /\ RunIdle
    /\ SideIdle
    /\ sun = SunIdle
    /\ uploads = InitialUploads
    /\ api = ApiIdle
    /\ norm \in {[NormIdle EXCEPT !.pc = "check", !.description = d,
                                  !.sunriseSunsetData = sd, !.fileType = ft] :
                    d \in Descriptions, sd \in SunSignals, ft \in FileTypes}

\* L54-L78
MismatchCheck ==
    /\ norm.pc = "check"
    /\ norm' = [norm EXCEPT
                  !.issues = PreIssues(norm.description, norm.sunriseSunsetData),
                  !.verificationFactors = PreFactors(norm.sunriseSunsetData),
                  !.pc = "model"]
    /\ UNCHANGED <<vars, sun, uploads, api, sideVars>>

\* L302-L368: an attempt's JSON parses
ReceiveParsed ==
    /\ norm.pc = "model"
    /\ \E p \in ParsedObjects : norm' = [norm EXCEPT !.parsed = p, !.pc = "normalize"]
    /\ UNCHANGED <<vars, sun, uploads, api, sideVars>>

\* L416-L491
NormalizeStep ==
    /\ norm.pc = "normalize"
    /\ norm' = [norm EXCEPT
                  !.out = NormalizeParsed(norm.parsed, norm.issues,
                                          norm.verificationFactors, norm.fileType),
                  !.pc = "done"]
    /\ UNCHANGED <<vars, sun, uploads, api, sideVars>>

NormNext == MismatchCheck \/ ReceiveParsed \/ NormalizeStep

NormSpec == NormInit /\ [][NormNext]_allVars

NormTypeOK ==
    /\ norm.pc \in {"off", "check", "model", "normalize", "done"}
    /\ norm.out.threw \in BOOLEAN
    /\ norm.out.verified \in BOOLEAN

NormReturned == norm.pc = "done" /\ ~norm.out.threw

\* C17: the final issue list of a run that returns is the issues of the
\* automated mismatch check followed by the issues the model reported, each
\* part in its own order; with a description that mentions daytime and a sun
\* signal that says night, the daytime alert is in the final list whatever
\* the model reported.
C17_IssuesMerged ==
    NormReturned =>
        LET final == norm.out.issues.list
            reported == EnsureArray(norm.parsed["additionalIssues"])
            sd == norm.sunriseSunsetData
        IN  /\ Len(final) = Len(norm.issues) + Len(reported)
            /\ \A i \in 1..Len(norm.issues) : final[i] = <<norm.issues[i]>>
            /\ \A i \in 1..Len(reported) : final[Len(norm.issues) + i] = Render(reported[i])
            /\ norm.out.issues.defined <=> (final # <<>>)
            /\ (norm.description = SunnyAfternoon /\ sd.present /\ ~sd.error /\ ~sd.isDaytime)
                  => \E i \in 1..Len(final) : final[i] = <<DaytimeAlert>>

C17_Witness ==
    /\ NormReturned
    /\ norm.description = SunnyAfternoon
    /\ norm.sunriseSunsetData.present
    /\ ~norm.sunriseSunsetData.isDaytime
    /\ norm.parsed["additionalIssues"] = JArray(<<>>)
    /\ norm.out.issues = [defined |-> TRUE, list |-> <<(<<DaytimeAlert>>)>>]

\* C18: for every parsed object, the returned `verified` is true exactly when
\* the object's status is the string "verified"; an object without status
\* gives status 'unverified' and verified = false.
C18_VerifiedIffStatusVerified ==
    NormReturned =>
        LET st == norm.parsed["status"]
        IN  /\ norm.out.verified <=> (st.t = "string" /\ st.v = <<"verified">>)
            /\ (st.t = "absent") =>
                  /\ norm.out.status = JString(<<"unverified">>)
                  /\ ~norm.out.verified

C18_Witness ==
    /\ NormReturned
    /\ norm.parsed["status"] = JAbsent
    /\ norm.out.status = JString(<<"unverified">>)
    /\ ~norm.out.verified

SectionRank ==
    ("summary" :> 0) @@ ("level1" :> 1) @@ ("web" :> 2) @@ ("sources" :> 3) @@
    ("level2" :> 4) @@ ("claims" :> 5) @@ ("actions" :> 6) @@ ("analysis" :> 7)

SectionField ==
    ("level1" :> "textBasedFindings") @@ ("web" :> "webSearchResults") @@
    ("level2" :> "imageAnalysisFindings") @@ ("claims" :> "claimsIdentified") @@
    ("actions" :> "recommendedActions")

Emitted(kind) == \E i \in 1..Len(norm.out.text) : norm.out.text[i].kind = kind

\* C19: the sections of the result text appear in the fixed order summary,
\* Level 1, web search, sources, Level 2, claims, recommended actions,
\* detailed analysis; a list section is there exactly when its list is not
\* empty, the sources section exactly when some source is not a URL, and the
\* analysis section exactly when analysis is present and differs from the
\* summary.
C19_SectionsInFixedOrder ==
    NormReturned =>
        LET text == norm.out.text
            p == norm.parsed
        IN  /\ Len(text) >= 1 /\ text[1].kind = "summary"
            /\ \A i, j \in 1..Len(text) :
                  i < j => SectionRank[text[i].kind] < SectionRank[text[j].kind]
            /\ \A k \in DOMAIN SectionField :
                  Emitted(k) <=> (EnsureArray(p[SectionField[k]]) # <<>>)
            /\ Emitted("sources") <=>
                  \E i \in 1..Len(EnsureArray(p["sourcesUsed"])) :
                      LET e == EnsureArray(p["sourcesUsed"])[i]
                      IN  e.v = <<>> \/ e.v[1] \notin {"http://", "https://"}
            /\ Emitted("analysis") <=>
                  /\ p["analysis"].t # "absent"
                  /\ Render(p["analysis"]) # text[1].lines[1]

\* C20: once the object has parsed, normalisation does not raise, whatever
\* the shape of its optional fields.
C20_NormalizationNeverRaises == (norm.pc = "done") => ~norm.out.threw

-----------------------------------------------------------------------------
(* The verify route: POST verifies one upload, GET a batch of pending ones, *)
(* over the uploads table.  Requests are served one after the other; the    *)
(* owner may soft-delete an upload at any step of a request; the map and    *)
(* profile pages, which share nothing with a request but the table, read    *)
(* between requests.                                                        *)

\* .limit(10) of the batch selection
BatchLimit == 10

\* CHECK (verification_status IN (...)) of the uploads table
StatusEnum == {<<"unverified">>, <<"verified">>, <<"potential_issues">>}

\* the key the server-side client is created with
Roles == {"authenticated", "service_role"}

\* row-level security binds every key but the service role's
RlsApplies == api.role # "service_role"

\* policy "Uploads are viewable by everyone": USING (deleted_at IS NULL)
Visible(id) == id \in UploadIds /\ (RlsApplies => ~uploads[id].deleted)

RECURSIVE Concat(_)
\* Array.prototype.join of strings
Concat(seqs) == IF seqs = <<>> THEN <<>> ELSE Head(seqs) \o Concat(Tail(seqs))

\* one `resultText +=` of verifyContent as a string
SectionString(sec) ==
    (IF sec.kind = "summary" THEN <<>> ELSE <<"\n\n", sec.header, "\n">>)
        \o Concat(sec.lines)

ResultString(text) == Concat([i \in 1..Len(text) |-> SectionString(text[i])])

\* verifyContent raised err to the route
Raised(err) == [NoVerification EXCEPT !.threw = TRUE, !.message = err.message]

\* what verifyContent hands the route when an attempt parsed to p
VerifyOutcome(p, issues) ==
    LET out == NormalizeParsed(p, issues, <<>>, "image")
    IN  IF out.threw
        THEN Raised(WrapError(MkError("TypeError", <<"s.startsWith is not a function">>)))
        ELSE [NoVerification EXCEPT !.verified = out.verified,
                                    !.status = out.status.v,
                                    !.result = ResultString(out.text),
                                    !.issues = out.issues,
                                    !.verificationFactors = out.verificationFactors]

\* the outcome of most runs: the model answers status "verified"
UsualOutcome == VerifyOutcome(BaseObject, <<>>)

OtherOutcomes ==
    {VerifyOutcome([BaseObject EXCEPT !["status"] = JString(<<"potential_issues">>),
                                      !["additionalIssues"] = JArray(<<StrA>>)],
                   <<DaytimeAlert>>),
     VerifyOutcome([BaseObject EXCEPT !["status"] = JAbsent], <<>>),
     VerifyOutcome([BaseObject EXCEPT !["status"] = JString(<<"Verified">>)], <<>>),
     VerifyOutcome([BaseObject EXCEPT !["status"] = JNumber], <<>>),
     VerifyOutcome([BaseObject EXCEPT !["sourcesUsed"] = JArray(<<StrA, JNumber>>)], <<>>),
     Raised(WrapError(MkError("attempt", <<"No JSON found in response">>)))}

\* the uploads whose verification or whose write can go another way than usual
FragileIds == {1, MaxUploads}

VerifyOutcomes(id) ==
    {UsualOutcome}
        \cup (IF id \in FragileIds /\ api.deviations < MaxDeviations
              THEN OtherOutcomes ELSE {})

OutcomeCost(v) == IF v = UsualOutcome THEN 0 ELSE 1

Whitespace == {"", " ", "\n", "\n\n"}

RECURSIVE TrimStart(_)
TrimStart(frags) ==
    IF frags # <<>> /\ Head(frags) \in Whitespace THEN TrimStart(Tail(frags)) ELSE frags

RECURSIVE TrimEnd(_)
TrimEnd(frags) ==
    IF frags # <<>> /\ frags[Len(frags)] \in Whitespace
    THEN TrimEnd(SubSeq(frags, 1, Len(frags) - 1)) ELSE frags

\* String.prototype.trim
Trim(frags) == TrimEnd(TrimStart(frags))

Bulleted(list) == Concat([i \in 1..Len(list) |-> <<"* ">> \o list[i]])

\* the resultText of the route: result, issues and factors joined and trimmed
StoredText(v) ==
    Trim(v.result
         \o (IF v.issues.defined /\ Len(v.issues.list) > 0
             THEN <<"\n\nIssues:\n">> \o Bulleted(v.issues.list) ELSE <<>>)
         \o (IF v.verificationFactors.defined /\ Len(v.verificationFactors.list) > 0
             THEN <<"\n\nVerification Factors:\n">> \o Bulleted(v.verificationFactors.list)
             ELSE <<>>))

SuccessUpdate_StaleStatus(v) ==
    [ai_verified |-> v.verified,
     ai_verification_result |-> Text(StoredText(v)),
     verification_status |-> <<"unverified">>]

\* the fields of the success write
SuccessUpdate(v) ==
    [ai_verified |-> v.verified,
     ai_verification_result |-> Text(StoredText(v)),
     verification_status |-> v.status]

FailureText_NoMessage(errorMessage) == <<"Verification failed">>

\* `Verification failed: ${errorMessage}`
FailureText(errorMessage) == <<"Verification failed: ">> \o errorMessage

FailureUpdate_FlagSet(errorMessage) ==
    [ai_verified |-> TRUE,
     ai_verification_result |-> Text(FailureText(errorMessage)),
     verification_status |-> <<"unverified">>]

\* the fields of the failure write
FailureUpdate(errorMessage) ==
    [ai_verified |-> FALSE,
     ai_verification_result |-> Text(FailureText(errorMessage)),
     verification_status |-> <<"unverified">>]

UpdateOutcomes_NoCheck(id, fields) ==
    IF ~Visible(id) THEN {"no_row"}
    ELSE {"applied"}
         \cup (IF id \in FragileIds /\ api.writeFailures < MaxWriteFailures
               THEN {"error"} \cup (IF RlsApplies THEN {"no_row"} ELSE {})
               ELSE {})

\* what the database can answer to update(fields).eq('id', id): the row is
\* written, an error comes back, or no row matches and no error comes back
UpdateOutcomes(id, fields) ==
    IF ~Visible(id) THEN {"no_row"}
    ELSE IF fields.verification_status \notin StatusEnum THEN {"error"}
    ELSE {"applied"}
         \cup (IF id \in FragileIds /\ api.writeFailures < MaxWriteFailures
               THEN {"error"} \cup (IF RlsApplies THEN {"no_row"} ELSE {})
               ELSE {})

UpdateCost(id, fields, o) ==
    IF o # "applied" /\ "applied" \in UpdateOutcomes(id, fields) THEN 1 ELSE 0

Updated_WithoutFlag(id, fields, o) ==
    IF o = "applied"
    THEN [uploads EXCEPT ![id] = [@ EXCEPT
            !.ai_verification_result = fields.ai_verification_result,
            !.verification_status = fields.verification_status]]
    ELSE uploads

\* the table after the update
Updated(id, fields, o) ==
    IF o = "applied"
    THEN [uploads EXCEPT ![id] = [@ EXCEPT
            !.ai_verified = fields.ai_verified,
            !.ai_verification_result = fields.ai_verification_result,
            !.verification_status = fields.verification_status]]
    ELSE uploads

UpdateEntry(id, kind, fields, message, o) ==
    [id |-> id, kind |-> kind, fields |-> fields, message |-> message, outcome |-> o]

Respond(method, code, error, details) ==
    [api EXCEPT !.pc = "responded", !.method = method,
                !.response = [NoResponse EXCEPT !.code = code, !.error = error,
                                                !.details = details]]

\* ids sent as uploadId: none, an own upload, another upload, no such row
PostTargets == {0, 1, MaxUploads, MaxUploads + 1}

ApiInit ==
    /\ RunIdle
    /\ SideIdle
    /\ sun = SunIdle
    /\ norm = NormIdle
    /\ uploads = InitialUploads
    /\ api \in {[ApiIdle EXCEPT !.role = r] : r \in Roles}

\* POST up to the load: getUser, request.json
PostStart ==
    /\ api.pc = "idle"
    /\ \E user \in BOOLEAN, uploadId \in PostTargets :
          api' = IF ~user THEN Respond("POST", 401, <<"Unauthorized">>, <<>>)
                 ELSE IF uploadId = 0
                 THEN Respond("POST", 400, <<"Upload ID is required">>, <<>>)
                 ELSE [api EXCEPT !.pc = "post_load", !.method = "POST",
                                  !.uploadId = uploadId]
    /\ UNCHANGED <<vars, sun, norm, uploads, sideVars>>

\* POST: select('*').eq('id', uploadId).single()
PostLoad ==
    /\ api.pc = "post_load"
    /\ api' = IF Visible(api.uploadId)
              THEN [api EXCEPT !.pc = "post_verify",
                               !.loaded = [found |-> TRUE,
                                           deleted |-> uploads[api.uploadId].deleted]]
              ELSE Respond("POST", 404, <<"Upload not found">>, <<>>)
    /\ UNCHANGED <<vars, sun, norm, uploads, sideVars>>

\* POST: await verifyContent(...) inside its try
PostVerify ==
    /\ api.pc = "post_verify"
    /\ \E v \in VerifyOutcomes(api.uploadId) :
          api' = [api EXCEPT !.verification = v,
                             !.deviations = @ + OutcomeCost(v),
                             !.pc = IF v.threw THEN "post_failure_write"
                                               ELSE "post_success_write"]
    /\ UNCHANGED <<vars, sun, norm, uploads, sideVars>>

\* POST: the catch of verifyContent: the failure write, unchecked, then 500
PostFailureWrite ==
    /\ api.pc = "post_failure_write"
    /\ LET msg == api.verification.message
           fields == FailureUpdate(msg)
       IN  \E o \in UpdateOutcomes(api.uploadId, fields) :
              /\ uploads' = Updated(api.uploadId, fields, o)
              /\ api' = [Respond("POST", 500, <<"Verification failed">>, msg) EXCEPT
                           !.updates = Append(@, UpdateEntry(api.uploadId, "failure",
                                                             fields, msg, o)),
                           !.writeFailures = @ + UpdateCost(api.uploadId, fields, o)]
    /\ UNCHANGED <<vars, sun, norm, sideVars>>

\* POST: the success write, its error checked, then the response
PostSuccessWrite ==
    /\ api.pc = "post_success_write"
    /\ LET v == api.verification
           fields == SuccessUpdate(v)
       IN  \E o \in UpdateOutcomes(api.uploadId, fields) :
              /\ uploads' = Updated(api.uploadId, fields, o)
              /\ api' = [(IF o = "error"
                          THEN Respond("POST", 500, <<"Failed to update verification">>, <<>>)
                          ELSE [Respond("POST", 200, <<>>, <<>>) EXCEPT
                                   !.response.verified = v.verified,
                                   !.response.result = v.result])
                         EXCEPT
                           !.updates = Append(@, UpdateEntry(api.uploadId, "success",
                                                             fields, <<>>, o)),
                           !.writeFailures = @ + UpdateCost(api.uploadId, fields, o)]
    /\ UNCHANGED <<vars, sun, norm, sideVars>>

\* the ids of a set in ascending order
Ascending(S) ==
    [i \in 1..Cardinality(S) |-> CHOOSE x \in S : Cardinality({y \in S : y < x}) = i - 1]

\* the rows select('*').is('ai_verification_result', null) matches
PendingIds == {id \in UploadIds : Visible(id) /\ uploads[id].ai_verification_result.isNull}

\* .limit(n) without an order: some n of the matching rows (here n
\* neighbouring ones), all of them when there are no more than n
Limited(ids, n) ==
    IF Cardinality(ids) <= n THEN {Ascending(ids)}
    ELSE {SubSeq(Ascending(ids), k + 1, k + n) : k \in 0..(Cardinality(ids) - n)}

\* GET: the selection of the batch
GetSelect ==
    /\ api.pc = "idle"
    /\ \/ \E sel \in Limited(PendingIds, BatchLimit) :
             api' = [api EXCEPT !.pc = "get_loop", !.method = "GET",
                                !.selected = sel,
                                !.selectedDeleted =
                                    {id \in UploadIds : uploads[id].deleted
                                        /\ \E i \in 1..Len(sel) : sel[i] = id},
                                !.idx = 1]
       \/ /\ api.deviations < MaxDeviations
          /\ api' = [Respond("GET", 500, <<"Failed to fetch uploads">>, <<>>) EXCEPT
                        !.deviations = @ + 1]
    /\ UNCHANGED <<vars, sun, norm, uploads, sideVars>>

\* GET: the loop body calls verifyContent for the next record
GetCallVerify ==
    /\ api.pc = "get_loop"
    /\ api.idx <= Len(api.selected)
    /\ api' = [api EXCEPT !.pc = "get_running", !.running = api.selected[api.idx]]
    /\ UNCHANGED <<vars, sun, norm, uploads, sideVars>>

\* GET: the awaited run returns or raises
GetVerifyEnds ==
    /\ api.pc = "get_running"
    /\ \E v \in VerifyOutcomes(api.running) :
          api' = [api EXCEPT !.verification = v,
                             !.running = 0,
                             !.deviations = @ + OutcomeCost(v),
                             !.pc = IF v.threw THEN "get_failure_write"
                                               ELSE "get_success_write"]
    /\ UNCHANGED <<vars, sun, norm, uploads, sideVars>>

ResultEntry(id, verified, status, resultText) ==
    [id |-> id, verified |-> verified, status |-> status, result |-> resultText]

\* GET: the success write, its outcome not looked at, and the result entry
GetSuccessWrite ==
    /\ api.pc = "get_success_write"
    /\ LET id == api.selected[api.idx]
           v == api.verification
           fields == SuccessUpdate(v)
       IN  \E o \in UpdateOutcomes(id, fields) :
              /\ uploads' = Updated(id, fields, o)
              /\ api' = [api EXCEPT
                           !.updates = Append(@, UpdateEntry(id, "success", fields, <<>>, o)),
                           !.results = Append(@, ResultEntry(id, v.verified, v.status,
                                                             StoredText(v))),
                           !.writeFailures = @ + UpdateCost(id, fields, o),
                           !.idx = @ + 1,
                           !.pc = "get_loop"]
    /\ UNCHANGED <<vars, sun, norm, sideVars>>

AfterFailureIdx_Abort(idx, n) == n + 1

\* the record the loop goes on with after a record's catch
AfterFailureIdx(idx, n) == idx + 1

\* GET: the per-record catch: the failure write and the result entry
GetFailureWrite ==
    /\ api.pc = "get_failure_write"
    /\ LET id == api.selected[api.idx]
           msg == api.verification.message
           fields == FailureUpdate(msg)
       IN  \E o \in UpdateOutcomes(id, fields) :
              /\ uploads' = Updated(id, fields, o)
              /\ api' = [api EXCEPT
                           !.updates = Append(@, UpdateEntry(id, "failure", fields, msg, o)),
                           !.results = Append(@, ResultEntry(id, FALSE, <<"unverified">>,
                                                             FailureText(msg))),
                           !.writeFailures = @ + UpdateCost(id, fields, o),
                           !.idx = AfterFailureIdx(@, Len(api.selected)),
                           !.pc = "get_loop"]
    /\ UNCHANGED <<vars, sun, norm, sideVars>>

\* GET: after the loop, { results }
GetRespond ==
    /\ api.pc = "get_loop"
    /\ api.idx > Len(api.selected)
    /\ api' = [Respond("GET", 200, <<>>, <<>>) EXCEPT !.response.results = api.results]
    /\ UNCHANGED <<vars, sun, norm, uploads, sideVars>>

\* the request is over; what lasts is the table (and, as history, `batched`:
\* the records that batch requests have processed)
Finish ==
    /\ api.pc = "responded"
    /\ api' = [ApiIdle EXCEPT !.role = api.role, !.deviations = api.deviations,
                              !.writeFailures = api.writeFailures,
                              !.lastRead = api.lastRead,
                              !.batched = api.batched \cup
                                  {api.results[i].id : i \in DOMAIN api.results}]
    /\ UNCHANGED <<vars, sun, norm, uploads, sideVars>>

\* profile page: update({ deleted_at }).eq('id', id).eq('user_id', ...)
SoftDelete ==
    /\ \E id \in 1..OwnedUploads :
          /\ ~uploads[id].deleted
          /\ uploads' = [uploads EXCEPT ![id].deleted = TRUE]
    /\ UNCHANGED <<vars, sun, norm, api, sideVars>>

\* a display read, as far as the soft-delete mark of its rows goes
ReadOf(by, ids) == [by |-> by, deleted |-> {id \in ids : uploads[id].deleted}]

\* map: select('*').is('deleted_at', null)
FetchUploads ==
    /\ api.pc = "idle"
    /\ api' = [api EXCEPT !.lastRead = ReadOf("map", {id \in UploadIds : ~uploads[id].deleted})]
    /\ api'.lastRead # api.lastRead
    /\ UNCHANGED <<vars, sun, norm, uploads, sideVars>>

\* profile: select('*').eq('user_id', user.id).is('deleted_at', null)
FetchProfileUploads ==
    /\ api.pc = "idle"
    /\ api' = [api EXCEPT
                 !.lastRead = ReadOf("profile", {id \in 1..OwnedUploads : ~uploads[id].deleted})]
    /\ api'.lastRead # api.lastRead
    /\ UNCHANGED <<vars, sun, norm, uploads, sideVars>>

ApiNext ==
    \/ PostStart
    \/ PostLoad
    \/ PostVerify
    \/ PostFailureWrite
    \/ PostSuccessWrite
    \/ GetSelect
    \/ GetCallVerify
    \/ GetVerifyEnds
    \/ GetSuccessWrite
    \/ GetFailureWrite
    \/ GetRespond
    \/ Finish
    \/ SoftDelete
    \/ FetchUploads
    \/ FetchProfileUploads

ApiSpec == ApiInit /\ [][ApiNext]_allVars

ApiTypeOK ==
    /\ api.pc \in {"idle", "post_load", "post_verify", "post_failure_write",
                   "post_success_write", "get_loop", "get_running",
                   "get_success_write", "get_failure_write", "responded"}
    /\ api.role \in Roles
    /\ api.method \in {"none", "POST", "GET"}
    /\ api.deviations \in 0..MaxDeviations
    /\ api.writeFailures \in 0..MaxWriteFailures
    /\ api.idx \in 0..(BatchLimit + 1)
    /\ \A id \in UploadIds : uploads[id].deleted \in BOOLEAN

\* the row of an update the current request issued
RowOf(u) == uploads[u.id]

FailureWrites == {i \in 1..Len(api.updates) : api.updates[i].kind = "failure"}

\* the row is in the state a failed verification leaves: explicit
\* "unverified", not verified, a result text that is not null, starts with
\* the failure marker and goes on with the error message
HoldsFailure(row, message) ==
    /\ row.verification_status = <<"unverified">>
    /\ row.ai_verified = FALSE
    /\ ~row.ai_verification_result.isNull
    /\ Len(row.ai_verification_result.text) = 1 + Len(message)
    /\ row.ai_verification_result.text[1] = "Verification failed: "
    /\ message # <<>>
    /\ \A k \in 1..Len(message) : row.ai_verification_result.text[k + 1] = message[k]

C13_ExactlyOneUpdatePerPost ==
    (api.method = "POST") =>
        LET v == api.verification
        IN  /\ Len(api.updates) <= 1
            /\ ~api.loaded.found => api.updates = <<>>
            /\ (api.pc = "responded" /\ api.loaded.found) =>
                  /\ Len(api.updates) = 1
                  /\ api.updates[1].id = api.uploadId
                  /\ api.updates[1].kind = IF v.threw THEN "failure" ELSE "success"
                  /\ v.threw =>
                        /\ api.updates[1].fields.ai_verified = FALSE
                        /\ api.updates[1].fields.verification_status = <<"unverified">>
                        /\ api.updates[1].fields.ai_verification_result
                              = Text(<<"Verification failed: ">> \o v.message)
                  /\ ~v.threw =>
                        /\ api.updates[1].fields.ai_verified = v.verified
                        /\ api.updates[1].fields.verification_status = v.status
                        /\ api.updates[1].fields.ai_verification_result
                              = Text(StoredText(v))

C13_Witness ==
    /\ api.method = "POST"
    /\ api.pc = "responded"
    /\ api.loaded.found
    /\ api.verification.threw
    /\ Len(api.updates) = 1
    /\ api.updates[1].kind = "failure"

\* C14: when the write of a verification result did not succeed, the caller
\* gets an error: a POST answers 200 only if its write was applied, and a
\* batch entry that reports a record as verified has an applied write.
C14_WriteFailureSurfaced ==
    (api.pc = "responded") =>
        /\ (api.method = "POST" /\ api.response.code = 200) =>
              /\ Len(api.updates) = 1
              /\ api.updates[1].outcome = "applied"
        /\ (api.method = "GET" /\ api.response.code = 200) =>
              \A i \in 1..Len(api.response.results) :
                  api.response.results[i].verified =>
                      /\ i <= Len(api.updates)
                      /\ api.updates[i].id = api.response.results[i].id
                      /\ api.updates[i].outcome = "applied"

\* C15: a batch selects at most 10 pending records; at most one run is in
\* progress and it is the run of the next record, all earlier records being
\* done; a record whose run raised does not end the batch: the response has
\* one entry per selected record, in order.
C15_BatchSequentialIsolated ==
    (api.method = "GET") =>
        /\ Len(api.selected) <= 10
        /\ \A i, j \in 1..Len(api.selected) : i # j => api.selected[i] # api.selected[j]
        /\ Len(api.results) <= Len(api.selected)
        /\ \A i \in 1..Len(api.results) : api.results[i].id = api.selected[i]
        /\ (api.running # 0) =>
              /\ Len(api.results) < Len(api.selected)
              /\ api.running = api.selected[Len(api.results) + 1]
        /\ (api.pc = "responded") =>
              /\ Len(api.response.results) = Len(api.selected)
              /\ \A i \in 1..Len(api.selected) :
                    api.response.results[i].id = api.selected[i]

C15_Witness ==
    /\ api.method = "GET"
    /\ api.pc = "responded"
    /\ Len(api.selected) = 10
    /\ Len(api.response.results) = 10
    /\ \E i \in 1..9 : api.updates[i].kind = "failure"
    /\ Cardinality({id \in UploadIds : uploads[id].ai_verification_result.isNull}) = 1

-----------------------------------------------------------------------------
(* The verification fields of a record over its life.                       *)

\* C26: whatever status the model's JSON holds (a string outside the three
\* values, a number), a record's verification_status is always one of
\* unverified, verified, potential_issues, and so is the status of every
\* update the database applied.
C26_StoredStatusInEnum ==
    /\ \A id \in UploadIds : uploads[id].verification_status \in StatusEnum
    /\ \A i \in DOMAIN api.updates :
          (api.updates[i].outcome = "applied") =>
              api.updates[i].fields.verification_status \in StatusEnum

C26_Witness ==
    \E i \in DOMAIN api.updates :
        /\ api.updates[i].kind = "success"
        /\ api.updates[i].fields.verification_status = JNumber.v
        /\ api.updates[i].outcome = "error"
        /\ uploads[api.updates[i].id].verification_status = <<"unverified">>

\* C27: in every state of every record, ai_verified is true exactly when
\* verification_status is 'verified'.
C27_VerifiedIffStatusStored ==
    \A id \in UploadIds :
        uploads[id].ai_verified <=> (uploads[id].verification_status = <<"verified">>)

C27_Witness ==
    \E a \in UploadIds, b \in UploadIds :
        /\ uploads[a].ai_verified
        /\ uploads[a].verification_status = <<"verified">>
        /\ ~uploads[b].ai_verification_result.isNull
        /\ uploads[b].verification_status = <<"potential_issues">>
        /\ ~uploads[b].ai_verified

\* C28: every verification write carries a non-empty text, so a written
\* record is no longer pending, and a batch request never selects a record
\* that an earlier batch request has processed.
C28_PendingLeftOnce ==
    /\ \A i \in DOMAIN api.updates :
          /\ ~api.updates[i].fields.ai_verification_result.isNull
          /\ api.updates[i].fields.ai_verification_result.text # <<>>
    /\ \A i \in DOMAIN api.selected : api.selected[i] \notin api.batched

-----------------------------------------------------------------------------
(* verifyContent: media dispatch, context guard and cleanup order.          *)

\* C22: every model invocation of a run carries the media variant of the
\* upload: inline image data for an image, the staged file reference for a
\* video, the prompt alone only when there is neither; and every retry carries
\* the same variant and reference as the first invocation.
C22_MediaVariantMatchesUpload ==
    \A i \in DOMAIN invocationLog :
        LET inv == invocationLog[i] IN
        /\ (input.fileType = "image") => (inv.variant = "inlineData" /\ Truthy(imageBase64))
        /\ (input.fileType = "video") => (inv.variant = "fileData" /\ Truthy(inv.ref))
        /\ (inv.variant = "text") => (~Truthy(imageBase64) /\ ~Truthy(videoUri))
        /\ inv.variant = invocationLog[1].variant
        /\ inv.ref = invocationLog[1].ref

C22_Witness ==
    /\ Terminal
    /\ input.fileType = "image"
    /\ Len(invocationLog) = MAX_RETRIES
    /\ invocationLog[MAX_RETRIES].variant = "inlineData"

\* C23: with both coordinates given, sunrise/sunset and weather are requested
\* exactly when a capture date is given, and the reverse geocode is requested
\* with or without a capture date.
C23_GeocodeWithoutCaptureDate ==
    (pc \notin ContextPcs /\ input.latitude # NULL /\ input.longitude # NULL) =>
        /\ (ctxLog["sun"] # "notcalled") <=> (input.captureDate # NULL)
        /\ (ctxLog["weather"] # "notcalled") <=> (input.captureDate # NULL)
        /\ ctxLog["geocode"] # "notcalled"

\* C24: once the delete of the remote file has been issued, the run makes no
\* further model invocation: the delete comes after the last invocation.
C24_NoInvocationAfterDelete ==
    [][(deleteLog # <<>>) => (invocationLog' = invocationLog)]_vars

C24_Witness ==
    /\ Terminal
    /\ input.fileType = "video"
    /\ Len(invocationLog) = 2
    /\ deleteLog = <<"post_loop">>
    /\ remoteFile = "deleted"

-----------------------------------------------------------------------------
(* verifyContent: the JSON recovery of an attempt (L341-L381) on its own.   *)
(* A response text is the list of its characters; a code-fence marker, the  *)
(* word json and an escaped newline are one element each.                   *)

Quote == "\""

Newline == "\n"

EscapedNewline == "\\n"

\* the marker of a code fence, three backticks
Fence == "<fence>"

\* whitespace, for the patterns of the repair and for JSON.parse
JsonWs == {" ", Newline}

RECURSIVE SkipWs(_, _)
SkipWs(t, i) == IF i <= Len(t) /\ t[i] \in JsonWs THEN SkipWs(t, i + 1) ELSE i

RECURSIVE NextQuote(_, _)
\* the position of the first quote at or after i, Len(t) + 1 when there is none
NextQuote(t, i) == IF i > Len(t) \/ t[i] = Quote THEN i ELSE NextQuote(t, i + 1)

ParseFail == [ok |-> FALSE, val |-> JAbsent, obj |-> <<>>, next |-> 0]

\* the value of a string literal: an escaped newline stands for a newline
Decode(content) ==
    [k \in 1..Len(content) |-> IF content[k] = EscapedNewline THEN Newline ELSE content[k]]

\* JSON.parse at a string literal: no raw newline inside
ParseString(t, i) ==
    IF i > Len(t) \/ t[i] # Quote THEN ParseFail
    ELSE LET j == NextQuote(t, i + 1)
             content == SubSeq(t, i + 1, j - 1)
         IN  IF j > Len(t) \/ \E k \in 1..Len(content) : content[k] = Newline
             THEN ParseFail
             ELSE [ParseFail EXCEPT !.ok = TRUE, !.val = JString(Decode(content)),
                                    !.next = j + 1]

RECURSIVE ParseElements(_, _, _)
\* JSON.parse inside an array, at an element
ParseElements(t, i, acc) ==
    LET e == ParseString(t, SkipWs(t, i))
    IN  IF ~e.ok THEN ParseFail
        ELSE LET k == SkipWs(t, e.next)
             IN  IF k > Len(t) THEN ParseFail
                 ELSE IF t[k] = "," THEN ParseElements(t, k + 1, Append(acc, e.val))
                 ELSE IF t[k] = "]"
                 THEN [ParseFail EXCEPT !.ok = TRUE, !.val = JArray(Append(acc, e.val)),
                                        !.next = k + 1]
                 ELSE ParseFail

\* JSON.parse at a value: a string or an array of strings
ParseValue(t, i) ==
    IF i > Len(t) THEN ParseFail
    ELSE IF t[i] = Quote THEN ParseString(t, i)
    ELSE IF t[i] = "["
    THEN LET k == SkipWs(t, i + 1)
         IN  IF k <= Len(t) /\ t[k] = "]"
             THEN [ParseFail EXCEPT !.ok = TRUE, !.val = JArray(<<>>), !.next = k + 1]
             ELSE ParseElements(t, i + 1, <<>>)
    ELSE ParseFail

RECURSIVE ParseMembers(_, _, _)
\* JSON.parse inside an object, at a member
ParseMembers(t, i, acc) ==
    LET key == ParseString(t, SkipWs(t, i))
    IN  IF ~key.ok THEN ParseFail
        ELSE LET c == SkipWs(t, key.next)
             IN  IF c > Len(t) \/ t[c] # ":" THEN ParseFail
                 ELSE LET v == ParseValue(t, SkipWs(t, c + 1))
                      IN  IF ~v.ok THEN ParseFail
                          ELSE LET k == SkipWs(t, v.next)
                                   member == [key |-> key.val.v, value |-> v.val]
                               IN  IF k > Len(t) THEN ParseFail
                                   ELSE IF t[k] = ","
                                   THEN ParseMembers(t, k + 1, Append(acc, member))
                                   ELSE IF t[k] = "}"
                                   THEN [ParseFail EXCEPT !.ok = TRUE,
                                                          !.obj = Append(acc, member),
                                                          !.next = k + 1]
                                   ELSE ParseFail

\* JSON.parse of an object text
JsonParse(t) ==
    LET s == SkipWs(t, 1)
    IN  IF s > Len(t) \/ t[s] # "{" THEN NotParsed
        ELSE LET k == SkipWs(t, s + 1)
                 r == IF k <= Len(t) /\ t[k] = "}"
                      THEN [ParseFail EXCEPT !.ok = TRUE, !.next = k + 1]
                      ELSE ParseMembers(t, s + 1, <<>>)
             IN  IF r.ok /\ SkipWs(t, r.next) > Len(t)
                 THEN [ok |-> TRUE, obj |-> r.obj]
                 ELSE NotParsed

RECURSIVE StripTrailingCommas(_, _)
\* L360: drop a comma that is followed, after any whitespace, by } or ]
StripTrailingCommas(t, i) ==
    IF i > Len(t) THEN <<>>
    ELSE IF t[i] = "," /\ SkipWs(t, i + 1) <= Len(t) /\ t[SkipWs(t, i + 1)] \in {"}", "]"}
    THEN StripTrailingCommas(t, i + 1)
    ELSE <<t[i]>> \o StripTrailingCommas(t, i + 1)

RECURSIVE RemoveJsonFences(_, _)
\* L362: drop a fence marker followed by json, and the whitespace after it
RemoveJsonFences(t, i) ==
    IF i > Len(t) THEN <<>>
    ELSE IF t[i] = Fence /\ i < Len(t) /\ t[i + 1] = "json"
    THEN RemoveJsonFences(t, SkipWs(t, i + 2))
    ELSE <<t[i]>> \o RemoveJsonFences(t, i + 1)

RECURSIVE RemoveFences(_, _)
\* L363: drop a fence marker and the whitespace after it
RemoveFences(t, i) ==
    IF i > Len(t) THEN <<>>
    ELSE IF t[i] = Fence THEN RemoveFences(t, SkipWs(t, i + 1))
    ELSE <<t[i]>> \o RemoveFences(t, i + 1)

RECURSIVE EscapeNewlines(_, _)
\* L365-L367: from a quote to the next quote with a newline in between, every
\* newline becomes an escaped newline; the scan goes on after the match
EscapeNewlines(t, i) ==
    IF i > Len(t) THEN <<>>
    ELSE LET j == NextQuote(t, i + 1)
         IN  IF t[i] = Quote /\ j <= Len(t) /\ \E k \in (i + 1)..(j - 1) : t[k] = Newline
             THEN [k \in 1..(j - i + 1) |->
                      IF t[i + k - 1] = Newline THEN EscapedNewline ELSE t[i + k - 1]]
                  \o EscapeNewlines(t, j + 1)
             ELSE <<t[i]>> \o EscapeNewlines(t, i + 1)

\* L357-L367: fixedJson
RepairJson(t) ==
    EscapeNewlines(RemoveFences(RemoveJsonFences(StripTrailingCommas(t, 1), 1), 1), 1)

(* Inputs *)

Quoted(content) == <<Quote>> \o content \o <<Quote>>

MemberText(key, valueText) == Quoted(<<key>>) \o <<":">> \o valueText

Gaps == {<<>>, <<" ">>, <<Newline>>}

StringContents ==
    {<<>>, <<"x">>, <<"x", ",", "}">>, <<",", " ", "]">>, <<Fence, "x">>,
     <<Fence, "json", " ", "x">>, <<"x", EscapedNewline, "x">>, <<"{", "x", "}">>}

\* object texts that JSON.parse accepts as they are
WellFormedTexts ==
    {<<"{">> \o g \o <<"}">> : g \in Gaps}
    \cup {<<"{">> \o g1 \o MemberText("a", Quoted(c)) \o g2 \o <<"}">> :
            g1 \in Gaps, g2 \in Gaps, c \in StringContents}
    \cup {<<"{">> \o g \o MemberText("a", Quoted(c1)) \o <<",">> \o g
                 \o MemberText("b", Quoted(c2)) \o g \o <<"}">> :
            g \in Gaps, c1 \in StringContents, c2 \in StringContents}
    \cup {<<"{">> \o MemberText("a", <<"[">> \o Quoted(c1) \o <<",">> \o g
                                      \o Quoted(c2) \o <<"]">>) \o <<"}">> :
            g \in Gaps, c1 \in StringContents, c2 \in StringContents}

\* object texts with the defects the recovery is written for
DefectiveTexts ==
    {<<"{">> \o MemberText("a", Quoted(<<"x">>)) \o <<",">> \o g \o <<"}">> : g \in Gaps}
    \cup {<<"{">> \o MemberText("a", <<"[">> \o Quoted(<<"x">>) \o <<",", "]">>) \o <<"}">>,
          <<"{">> \o MemberText("a", Quoted(<<"x", Newline, "x">>)) \o <<"}">>,
          <<"{", Fence, "json", Newline>> \o MemberText("a", Quoted(<<"x">>))
                \o <<Newline, Fence, "}">>,
          <<"{", Newline>> \o MemberText("a", Quoted(<<"x">>)) \o <<",", Newline>>
                \o MemberText("b", Quoted(<<"x">>)) \o <<",", Newline, "}">>,
          <<"{">> \o MemberText("a", <<"x">>) \o <<"}">>}

ResponseTexts == WellFormedTexts \cup DefectiveTexts

mainVars == <<vars, sun, norm, uploads, api>>

MainIdle ==
    /\ RunIdle
    /\ sun = SunIdle
    /\ norm = NormIdle
    /\ uploads = InitialUploads
    /\ api = ApiIdle

RepairInit ==
    /\ MainIdle
    /\ race = RaceIdle
    /\ temps = TempsIdle
    /\ submit = SubmitIdle
    /\ repair \in {[RepairIdle EXCEPT !.pc = "text", !.text = t] : t \in ResponseTexts}

\* L348-L381: parse, and on a parse error repair and parse again; `direct`
\* and `repaired` are the two parses, `parsed` the one the attempt ends with
RecoverJson ==
    /\ repair.pc = "text"
    /\ LET direct == JsonParse(repair.text)
           repaired == JsonParse(RepairJson(repair.text))
       IN  repair' = [repair EXCEPT !.direct = direct,
                                    !.repaired = repaired,
                                    !.parsed = IF direct.ok THEN direct ELSE repaired,
                                    !.pc = "done"]
    /\ UNCHANGED <<mainVars, race, temps, submit>>

RepairNext == RecoverJson

RepairSpec == RepairInit /\ [][RepairNext]_allVars

-----------------------------------------------------------------------------
(* Two verification runs for one upload at the same time: two POSTs, or a   *)
(* POST and the loop of a batch GET, both past the load of the record      *)
(* race.uploadId.                                                           *)

Handlers == {"POST", "GET"}

Triple(row) == [ai_verified |-> row.ai_verified,
                ai_verification_result |-> row.ai_verification_result,
                verification_status |-> row.verification_status]

RaceInit ==
    /\ RunIdle
    /\ sun = SunIdle
    /\ norm = NormIdle
    /\ uploads = InitialUploads
    /\ api \in {[ApiIdle EXCEPT !.role = r] : r \in Roles}
    /\ repair = RepairIdle
    /\ temps = TempsIdle
    /\ submit = SubmitIdle
    /\ race \in {[RaceIdle EXCEPT !.pc = [r \in RaceRuns |-> "verify"],
                                  !.uploadId = id,
                                  !.handler["second"] = h] :
                    id \in FragileIds, h \in Handlers}

\* page.tsx L1225, L1311: await verifyContent(...) of one run ends
RaceVerify(r) ==
    /\ race.pc[r] = "verify"
    /\ \E v \in VerifyOutcomes(race.uploadId) :
          race' = [race EXCEPT !.verification[r] = v, !.pc[r] = "write"]
    /\ UNCHANGED <<mainVars, repair, temps, submit>>

\* page.tsx L1230-L1237, L1257-L1264 (POST), L1319-L1326, L1338-L1345 (GET):
\* the one update of the run, all three fields in it
RaceWrite(r) ==
    /\ race.pc[r] = "write"
    /\ LET v == race.verification[r]
           fields == IF v.threw THEN FailureUpdate(v.message) ELSE SuccessUpdate(v)
       IN  \E o \in UpdateOutcomes(race.uploadId, fields) :
              /\ uploads' = Updated(race.uploadId, fields, o)
              /\ race' = [race EXCEPT
                            !.fields[r] = fields,
                            !.applied = IF o = "applied" THEN Append(@, r) ELSE @,
                            !.pc[r] = "done"]
    /\ UNCHANGED <<vars, sun, norm, api, repair, temps, submit>>

RaceNext == \E r \in RaceRuns : RaceVerify(r) \/ RaceWrite(r)

RaceSpec == RaceInit /\ [][RaceNext]_allVars

\* C25: with two runs for one upload in any interleaving, the three
\* verification fields of the record are at every moment those of the last
\* update that was applied (those of a new row while none was): never a mix
\* of the two runs' fields.
C25_LastWriterWins ==
    Triple(uploads[race.uploadId]) =
        IF race.applied = <<>> THEN NoFields
        ELSE race.fields[race.applied[Len(race.applied)]]

C25_Witness ==
    /\ \A r \in RaceRuns : race.pc[r] = "done"
    /\ race.applied = <<"second", "first">>
    /\ race.handler["second"] = "GET"
    /\ race.fields["first"].ai_verified # race.fields["second"].ai_verified
    /\ race.fields["first"].ai_verification_result
          # race.fields["second"].ai_verification_result
    /\ race.fields["first"].verification_status # race.fields["second"].verification_status
    /\ Triple(uploads[race.uploadId]) = race.fields["first"]

-----------------------------------------------------------------------------
(* uploadVideoToGemini in two runs on one host at the same time, both past  *)
(* the download: temp file, provider upload, removal of the temp file.      *)

\* mimeType.split('/')[1] of the videos
Extensions == {"mp4", "webm"}

\* L701: gemini-video-<Date.now()>.<extension> in os.tmpdir()
TempFilePath(now, ext) == <<"gemini-video-", now, ".", ext>>

\* the files of os.tmpdir(): the path and the run whose bytes it holds
WrittenBy(files, path) ==
    IF \E f \in files : f.path = path
    THEN (CHOOSE f \in files : f.path = path).writer
    ELSE "missing"

Unlinked(files, path) == {f \in files : f.path # path}

TempsInit ==
    /\ MainIdle
    /\ repair = RepairIdle
    /\ race = RaceIdle
    /\ submit = SubmitIdle
    /\ temps \in {[TempsIdle EXCEPT !.pc = [r \in StagingRuns |-> "fetched"], !.ext = e] :
                     e \in [StagingRuns -> Extensions]}

\* the clock of the host goes on
Tick ==
    /\ temps.now < MaxClock
    /\ temps' = [temps EXCEPT !.now = @ + 1]
    /\ UNCHANGED <<mainVars, repair, race, submit>>

\* L700-L705: the path from the clock, and writeFileSync of the video to it
WriteTemp(r) ==
    /\ temps.pc[r] = "fetched"
    /\ LET path == TempFilePath(temps.now, temps.ext[r])
       IN  temps' = [temps EXCEPT
                       !.path[r] = path,
                       !.files = Unlinked(@, path) \cup {[path |-> path, writer |-> r]},
                       !.pc[r] = "upload"]
    /\ UNCHANGED <<mainVars, repair, race, submit>>

\* L708-L714: fileManager.uploadFile(tempFilePath) reads the file and sends
\* it, or fails; a file that is gone makes it fail
UploadTemp(r) ==
    /\ temps.pc[r] = "upload"
    /\ LET read == WrittenBy(temps.files, temps.path[r])
       IN  \E ok \in (IF read = "missing" THEN {FALSE} ELSE BOOLEAN) :
              temps' = [temps EXCEPT !.uploaded[r] = read,
                                     !.pc[r] = IF ok THEN "unlink" ELSE "catch"]
    /\ UNCHANGED <<mainVars, repair, race, submit>>

\* L743-L748: unlinkSync after the upload, an error of it only logged
UnlinkAfterUpload(r) ==
    /\ temps.pc[r] = "unlink"
    /\ temps' = [temps EXCEPT !.files = Unlinked(@, temps.path[r]), !.pc[r] = "done"]
    /\ UNCHANGED <<mainVars, repair, race, submit>>

\* L752-L760: the catch removes the temp file if it exists, then rethrows
UnlinkInCatch(r) ==
    /\ temps.pc[r] = "catch"
    /\ temps' = [temps EXCEPT !.files = Unlinked(@, temps.path[r]), !.pc[r] = "failed"]
    /\ UNCHANGED <<mainVars, repair, race, submit>>

TempsNext ==
    \/ Tick
    \/ \E r \in StagingRuns :
          WriteTemp(r) \/ UploadTemp(r) \/ UnlinkAfterUpload(r) \/ UnlinkInCatch(r)

TempsSpec == TempsInit /\ [][TempsNext]_allVars

HoldsTempFile(r) == temps.pc[r] \in {"upload", "unlink", "catch"}

\* C29: two runs that stage at the same time never have the same temp file
\* path, and a run never uploads from a file that the other run has written
\* over or removed.
C29_TempPathsDistinct ==
    /\ \A r \in StagingRuns, q \in StagingRuns :
          (r # q /\ HoldsTempFile(r) /\ HoldsTempFile(q)) => temps.path[r] # temps.path[q]
    /\ \A r \in StagingRuns : temps.uploaded[r] \in {"none", r}

-----------------------------------------------------------------------------
(* handleSubmit of the upload page in two tabs of one user: per file the    *)
(* insert, the read of the user's latest upload, the verification request.  *)

SubmitInit ==
    /\ MainIdle
    /\ repair = RepairIdle
    /\ race = RaceIdle
    /\ temps = TempsIdle
    /\ submit = [SubmitIdle EXCEPT !.pc = [t \in Tabs |-> "insert"]]

\* page.tsx L735-L749: insert of the file's row; an error ends the submission
InsertUpload(t) ==
    /\ submit.pc[t] = "insert"
    /\ \/ submit' = [submit EXCEPT !.rows = @ + 1,
                                    !.inserted[t][submit.file[t]] = submit.rows + 1,
                                    !.pc[t] = "select"]
       \/ submit' = [submit EXCEPT !.pc[t] = "failed"]
    /\ UNCHANGED <<mainVars, repair, race, temps>>

\* L752-L757: the user's uploads by created_at descending, the first one; the
\* rows are numbered in the order of their creation
LatestUpload(rows) == rows

\* L751-L767: read the latest upload of the user and, if there is one, fire
\* the request with its id; then the next file
SelectAndTrigger(t) ==
    /\ submit.pc[t] = "select"
    /\ \E newUpload \in {0, LatestUpload(submit.rows)} :
          submit' = [submit EXCEPT
                       !.requested[t][submit.file[t]] = newUpload,
                       !.file[t] = IF @ < FilesPerSubmission THEN @ + 1 ELSE @,
                       !.pc[t] = IF submit.file[t] < FilesPerSubmission
                                 THEN "insert" ELSE "done"]
    /\ UNCHANGED <<mainVars, repair, race, temps>>

SubmitNext == \E t \in Tabs : InsertUpload(t) \/ SelectAndTrigger(t)

SubmitSpec == SubmitInit /\ [][SubmitNext]_allVars

RequestsFor(id) ==
    {tf \in Tabs \X (1..FilesPerSubmission) : submit.requested[tf[1]][tf[2]] = id}

\* C30: a verification request that is fired carries the id of the upload
\* the same tab has just inserted, whatever another tab of the user does in
\* between; and when both submissions are over, every inserted upload has
\* exactly one request.
C30_TriggerCarriesInsertedId ==
    /\ \A t \in Tabs, f \in 1..FilesPerSubmission :
          (submit.requested[t][f] # 0) => (submit.requested[t][f] = submit.inserted[t][f])
    /\ (\A t \in Tabs : submit.pc[t] \in {"done", "failed"}) =>
          \A id \in 1..submit.rows : Cardinality(RequestsFor(id)) = 1

====
